---- MODULE Spec2Model ----
(***************************************************************************)
(* Model of the flight-plan manager of the Integrated Flight Management    *)
(* System: FlightPlanManager (flight_plan_manager.py) over the             *)
(* NavigationDatabase (nav_data_manager.py) and the AirwayDatabase         *)
(* (airway_database.py).                                                   *)
(*                                                                         *)
(* Python values are modelled as follows.                                  *)
(*   - Optional[x]: the empty sequence None, or the one-element sequence   *)
(*     <<x>>.                                                              *)
(*   - A FlightPlan object is a cell of `heap`; a reference to it is the   *)
(*     cell's number, and the null reference is 0.  active_plan and the    *)
(*     values of flight_plans are references, so the active plan and the   *)
(*     stored plan of the same name are one object when the code makes     *)
(*     them so.  A cell no reference of the manager reaches is freed, and  *)
(*     the cells alive are numbered in the order the manager reaches them  *)
(*     (flight_plans first, then active_plan), so that a state does not    *)
(*     depend on the numbers the allocator happened to hand out.           *)
(*   - A Python list is a sequence; Python index i is TLA+ index i + 1.    *)
(*   - Latitudes and longitudes are integers, in units of 1e-4 degree.     *)
(***************************************************************************)
EXTENDS Integers, Sequences, FiniteSets, TLC

VARIABLES
    nav_db,             \* NavigationDatabase: the waypoints table, identifier -> row
    heap,               \* the FlightPlan objects alive, reference -> object
    flight_plans,       \* FlightPlanManager.flight_plans, name -> reference (0: no entry)
    active_plan,        \* FlightPlanManager.active_plan, a reference (0: None)
    current_leg_index,  \* FlightPlanManager.current_leg_index
    last,               \* the last call: its name, its return value, the plan it
                        \* returned, for a delete that succeeded its position and
                        \* the leg index it found, for create_flight_plan,
                        \* save_flight_plan, load_flight_plan and the calls on
                        \* the store its arguments, and whether it raised
    files,              \* the file system: filename -> content
    pc,                 \* position of the end-of-route test's loop ("idle" outside it)
    calls,              \* successful advance_to_next_leg calls made by that loop
    optimizer           \* the objects a RouteOptimizer call works on: plans, the
                        \* list objects their waypoints fields refer to, and the
                        \* FlightPlanWaypoint objects the lists refer to

vars == <<nav_db, heap, flight_plans, active_plan, current_leg_index, last, files, pc, calls,
          optimizer>>

(***************************************************************************)
(* Bounds of the model.                                                    *)
(***************************************************************************)
MaxPlans == 2        \* FlightPlan objects alive at once
MaxWaypoints == 2    \* insert_waypoint / add_procedure grow a plan up to this length
MaxRoute == 2        \* route tokens of a create_flight_plan call (build specification)
MaxCalls == 3        \* calls made in the specification with files
MaxLegs == 4         \* longest plan of the end-of-route loop

None == <<>>
Some(x) == <<x>>

Max(a, b) == IF a >= b THEN a ELSE b
Min(a, b) == IF a <= b THEN a ELSE b

(***************************************************************************)
(* NavigationDatabase                                                      *)
(***************************************************************************)
Waypoint(identifier, latitude, longitude, altitude, waypoint_type) ==
    [identifier |-> identifier, latitude |-> latitude, longitude |-> longitude,
     altitude |-> altitude, waypoint_type |-> waypoint_type]

\* The rows initialize_database inserts.
test_waypoints ==
    {Waypoint("KSFO", 376213, -1223790, Some(13), "AIRPORT"),
     Waypoint("KOAK", 377214, -1222208, Some(9), "AIRPORT"),
     Waypoint("SFO", 376189, -1223750, None, "VOR"),
     Waypoint("FAITH", 372833, -1220167, None, "WAYPOINT"),
     Waypoint("WESLA", 377000, -1224167, None, "WAYPOINT"),
     Waypoint("REJOY", 375000, -1222000, None, "WAYPOINT"),
     Waypoint("CNDEL", 374000, -1221000, None, "WAYPOINT")}

\* The waypoints table after initialize_database: identifier is UNIQUE.
initialize_database ==
    [id \in {w.identifier : w \in test_waypoints} |->
        CHOOSE w \in test_waypoints : w.identifier = id]

\* SELECT ... WHERE identifier = ? : an exact match; a Waypoint of the row's
\* first five columns, or None.
find_waypoint(identifier) ==
    IF identifier \in DOMAIN nav_db
    THEN LET row == nav_db[identifier]
         IN  Some(Waypoint(row.identifier, row.latitude, row.longitude,
                           row.altitude, row.waypoint_type))
    ELSE None

(***************************************************************************)
(* AirwayDatabase                                                          *)
(***************************************************************************)
AirwaySegment(airway, waypoint_id, sequence_order) ==
    [airway |-> airway, waypoint_id |-> waypoint_id, sequence_order |-> sequence_order]

\* The rows _insert_sample_data inserts into airway_segments.
airway_segments ==
    {AirwaySegment("V334", "SFO", 1), AirwaySegment("V334", "WESLA", 2),
     AirwaySegment("V334", "KOAK", 3),
     AirwaySegment("V135", "SFO", 1), AirwaySegment("V135", "CNDEL", 2),
     AirwaySegment("V135", "KOAK", 3),
     AirwaySegment("V200", "KOAK", 1), AirwaySegment("V200", "REJOY", 2),
     AirwaySegment("V200", "SFO", 3)}

\* Variant: ORDER BY sequence_order DESC.
RECURSIVE OrderBySequence_Descending(_)
OrderBySequence_Descending(rows) ==
    IF rows = {} THEN <<>>
    ELSE LET first == CHOOSE r \in rows :
                        \A q \in rows : r.sequence_order >= q.sequence_order
         IN  <<first.waypoint_id>> \o OrderBySequence_Descending(rows \ {first})

\* ORDER BY sequence_order over a set of segment rows.
RECURSIVE OrderBySequence(_)
OrderBySequence(rows) ==
    IF rows = {} THEN <<>>
    ELSE LET first == CHOOSE r \in rows :
                        \A q \in rows : r.sequence_order <= q.sequence_order
         IN  <<first.waypoint_id>> \o OrderBySequence(rows \ {first})

\* AirwayDatabase.get_airway_waypoints: the waypoint ids of the airway, in order.
airway_db_get_airway_waypoints(airway_name) ==
    OrderBySequence({r \in airway_segments : r.airway = airway_name})

\* NavigationDatabase.get_airway_waypoints: the rows of the ids that resolve.
RECURSIVE ResolveAll(_)
ResolveAll(ids) ==
    IF ids = <<>> THEN <<>>
    ELSE find_waypoint(Head(ids)) \o ResolveAll(Tail(ids))

get_airway_waypoints(airway_name) ==
    ResolveAll(airway_db_get_airway_waypoints(airway_name))

(***************************************************************************)
(* FlightPlanWaypoint, FlightPlan                                          *)
(***************************************************************************)
FlightPlanWaypoint(identifier, latitude, longitude, waypoint_type, procedure_type) ==
    [identifier |-> identifier, latitude |-> latitude, longitude |-> longitude,
     altitude |-> None, speed |-> None, waypoint_type |-> waypoint_type,
     procedure_type |-> procedure_type]

\* A datetime: whole seconds and the microsecond part.
datetime(second, microsecond) == [second |-> second, microsecond |-> microsecond]

\* datetime.now() at the calls the model makes.
datetime_now == datetime(2, 0)

\* FlightPlan(...) with route_distance, estimated_time and created_date left
\* to their defaults; __post_init__ then sets created_date to datetime.now().
FlightPlan(name, departure, arrival, waypoints, cruise_altitude, cruise_speed) ==
    [name |-> name, departure |-> departure, arrival |-> arrival,
     waypoints |-> waypoints, cruise_altitude |-> cruise_altitude,
     cruise_speed |-> cruise_speed, route_distance |-> 0, estimated_time |-> 0,
     created_date |-> datetime_now]

\* The snapshot create_flight_plan and insert_waypoint take of a store row.
Snapshot(waypoint) ==
    FlightPlanWaypoint(waypoint.identifier, waypoint.latitude, waypoint.longitude,
                       waypoint.waypoint_type, None)

(***************************************************************************)
(* Python list operations                                                  *)
(***************************************************************************)
\* list.insert(position, x): a negative position counts from the end, and the
\* position is clamped to [0, len].
ListInsert(s, position, x) ==
    LET i == IF position < 0 THEN Max(Len(s) + position, 0) ELSE Min(position, Len(s))
    IN  SubSeq(s, 1, i) \o <<x>> \o SubSeq(s, i + 1, Len(s))

\* Variant: the last element is removed, whatever the position.
ListPop_Last(s, position) == SubSeq(s, 1, Len(s) - 1)

\* list.pop(position) for 0 <= position < len: the list without that element.
ListPop(s, position) ==
    SubSeq(s, 1, position) \o SubSeq(s, position + 2, Len(s))

(***************************************************************************)
(* Identifiers: str.startswith(('J', 'V', 'Q', 'T'))                       *)
(***************************************************************************)
\* The first character of each identifier the model uses.
FirstChar(s) ==
    CASE s \in {"KSFO", "KOAK"} -> "K"
      [] s \in {"SFO"} -> "S"
      [] s \in {"FAITH"} -> "F"
      [] s \in {"WESLA"} -> "W"
      [] s \in {"REJOY"} -> "R"
      [] s \in {"CNDEL"} -> "C"
      [] s \in {"NOPE"} -> "N"
      [] s \in {"V334", "V135", "V200", "V999"} -> "V"
      [] s \in {"TANGO"} -> "T"
      [] s \in {"JULIET"} -> "J"
      [] s \in {"Q1"} -> "Q"
      [] OTHER -> ""

\* Variant: T is not among the airway prefixes.
StartsWithAirwayPrefix_NoT(element) == FirstChar(element) \in {"J", "V", "Q"}

StartsWithAirwayPrefix(element) == FirstChar(element) \in {"J", "V", "Q", "T"}

(***************************************************************************)
(* The file system                                                         *)
(***************************************************************************)
\* A path with a directory part, and one without: save_flight_plan calls
\* os.makedirs(os.path.dirname(filename)), which raises for the latter.
Filenames == {"plans/P1.json", "P1.json"}

\* No file exists.
Missing == [kind |-> "missing"]

NoFiles == [f \in Filenames |-> Missing]

\* No RouteOptimizer call is under way.
NoOptimizer == [objects |-> <<>>, lists |-> <<>>, plans |-> <<>>, result |-> <<>>]

(***************************************************************************)
(* FlightPlanManager: state                                                *)
(***************************************************************************)
NameSeq == <<"P1">>
Names == {NameSeq[i] : i \in 1..Len(NameSeq)}

\* The sequence without its zeros and without repeats (first occurrence kept).
RECURSIVE Distinct(_, _)
Distinct(refs, seen) ==
    IF refs = <<>> THEN <<>>
    ELSE IF Head(refs) = 0 \/ Head(refs) \in seen THEN Distinct(Tail(refs), seen)
    ELSE <<Head(refs)>> \o Distinct(Tail(refs), seen \cup {Head(refs)})

\* The references the manager holds, in the order it reaches them.
Reachable(fp, ap) ==
    Distinct([i \in 1..Len(NameSeq) |-> fp[NameSeq[i]]] \o <<ap>>, {})

\* The place of reference r in the sequence of live references (0 stays 0).
RefIn(live, r) ==
    IF r = 0 THEN 0 ELSE CHOOSE i \in 1..Len(live) : live[i] = r

\* The number of a reference after the cells are renumbered.
Renumber(r, fp, ap) == RefIn(Reachable(fp, ap), r)

\* The manager's three reference-holding fields after a call left them as
\* h, fp and ap: unreachable cells are freed and the others renumbered.
Store(h, fp, ap) ==
    LET live == Reachable(fp, ap)
    IN  /\ heap' = [i \in 1..Len(live) |-> h[live[i]]]
        /\ flight_plans' = [n \in Names |-> RefIn(live, fp[n])]
        /\ active_plan' = RefIn(live, ap)

Active == active_plan # 0

\* self.active_plan.waypoints
ActiveWaypoints == heap[active_plan].waypoints

\* `not self.active_plan or not self.active_plan.waypoints`
NoPlanOrWaypoints == active_plan = 0 \/ ActiveWaypoints = <<>>

Result(op, ret, plan) ==
    [op |-> op, ret |-> ret, plan |-> plan, position |-> 0, leg_index |-> 0,
     args |-> <<>>, raised |-> FALSE]

\* FlightPlanManager.__init__
Init ==
    /\ nav_db = initialize_database
    /\ heap = <<>>
    /\ flight_plans = [n \in Names |-> 0]
    /\ active_plan = 0
    /\ current_leg_index = 0
    /\ last = Result("__init__", TRUE, 0)
    /\ pc = "idle"
    /\ files = NoFiles
    /\ optimizer = NoOptimizer
    /\ calls = 0

(***************************************************************************)
(* Section 1: core state management                                        *)
(***************************************************************************)
\* Variant: the leg index is not reset.
set_active_plan_KeepIndex(flight_plan) ==
    /\ Store(heap, flight_plans, flight_plan)
    /\ UNCHANGED current_leg_index
    /\ last' = Result("set_active_plan", flight_plan # 0, 0)
    /\ UNCHANGED nav_db

\* set_active_plan(flight_plan).  The two assignments come first; with None
\* the log line's flight_plan.name then raises, and the handler returns False.
set_active_plan(flight_plan) ==
    /\ Store(heap, flight_plans, flight_plan)
    /\ current_leg_index' = 0
    /\ last' = Result("set_active_plan", flight_plan # 0, 0)
    /\ UNCHANGED nav_db

\* Variant: the leg index is not reset.
clear_active_plan_KeepIndex ==
    /\ Store(heap, flight_plans, 0)
    /\ UNCHANGED current_leg_index
    /\ last' = Result("clear_active_plan", TRUE, 0)
    /\ UNCHANGED nav_db

clear_active_plan ==
    /\ Store(heap, flight_plans, 0)
    /\ current_leg_index' = 0
    /\ last' = Result("clear_active_plan", TRUE, 0)
    /\ UNCHANGED nav_db

(***************************************************************************)
(* Section 2: live navigation interface                                    *)
(***************************************************************************)
\* Variant: the end of the route is taken to lie one index further.
AtLastWaypoint_OffByOne(waypoints, leg_index) == leg_index >= Len(waypoints)

\* `self.current_leg_index >= len(waypoints) - 1`
AtLastWaypoint(waypoints, leg_index) == leg_index >= Len(waypoints) - 1

get_current_leg ==
    IF NoPlanOrWaypoints THEN None
    ELSE IF AtLastWaypoint(ActiveWaypoints, current_leg_index) THEN None
    ELSE Some(<<ActiveWaypoints[current_leg_index + 1],
                ActiveWaypoints[current_leg_index + 2]>>)

\* Variant: the waypoint at the cursor is returned.
get_next_waypoint_Current ==
    IF NoPlanOrWaypoints THEN None
    ELSE IF AtLastWaypoint(ActiveWaypoints, current_leg_index) THEN None
    ELSE Some(ActiveWaypoints[current_leg_index + 1])

get_next_waypoint ==
    IF NoPlanOrWaypoints THEN None
    ELSE IF AtLastWaypoint(ActiveWaypoints, current_leg_index) THEN None
    ELSE Some(ActiveWaypoints[current_leg_index + 2])

is_end_of_route ==
    IF NoPlanOrWaypoints THEN TRUE
    ELSE AtLastWaypoint(ActiveWaypoints, current_leg_index)

\* Variant: the end-of-route check is missing.
advance_to_next_leg_NoGuard ==
    /\ IF NoPlanOrWaypoints
       THEN /\ last' = Result("advance_to_next_leg", FALSE, 0)
            /\ UNCHANGED current_leg_index
       ELSE /\ current_leg_index' = current_leg_index + 1
            /\ last' = Result("advance_to_next_leg", TRUE, 0)
    /\ UNCHANGED <<nav_db, heap, flight_plans, active_plan>>

advance_to_next_leg ==
    /\ IF NoPlanOrWaypoints
       THEN /\ last' = Result("advance_to_next_leg", FALSE, 0)
            /\ UNCHANGED current_leg_index
       ELSE IF AtLastWaypoint(ActiveWaypoints, current_leg_index)
       THEN /\ last' = Result("advance_to_next_leg", FALSE, 0)
            /\ UNCHANGED current_leg_index
       ELSE /\ current_leg_index' = current_leg_index + 1
            /\ last' = Result("advance_to_next_leg", TRUE, 0)
    /\ UNCHANGED <<nav_db, heap, flight_plans, active_plan>>

(***************************************************************************)
(* Section 3: advanced flight planning features                            *)
(***************************************************************************)
\* The active plan with its waypoint list replaced (the list is edited in place).
WithWaypoints(waypoints) ==
    [heap EXCEPT ![active_plan].waypoints = waypoints]

\* Variant: an identifier that does not resolve is inserted as a placeholder.
insert_waypoint_Placeholder(wp_id, position) ==
    /\ IF active_plan = 0
       THEN /\ last' = Result("insert_waypoint", FALSE, 0)
            /\ UNCHANGED heap
       ELSE LET waypoint == find_waypoint(wp_id)
                fp_waypoint == IF waypoint = None
                               THEN FlightPlanWaypoint(wp_id, 0, 0, "waypoint", None)
                               ELSE Snapshot(waypoint[1])
            IN  /\ heap' = WithWaypoints(ListInsert(ActiveWaypoints, position, fp_waypoint))
                /\ last' = Result("insert_waypoint", waypoint # None, 0)
    /\ UNCHANGED <<nav_db, flight_plans, active_plan, current_leg_index>>

\* Variant: the cursor is moved along when the waypoint goes in at or before it.
insert_waypoint_ShiftCursor(wp_id, position) ==
    /\ IF active_plan = 0
       THEN /\ last' = Result("insert_waypoint", FALSE, 0)
            /\ UNCHANGED <<heap, current_leg_index>>
       ELSE LET waypoint == find_waypoint(wp_id)
            IN  IF waypoint = None
                THEN /\ last' = Result("insert_waypoint", FALSE, 0)
                     /\ UNCHANGED <<heap, current_leg_index>>
                ELSE /\ heap' = WithWaypoints(
                            ListInsert(ActiveWaypoints, position, Snapshot(waypoint[1])))
                     /\ current_leg_index' =
                            IF 0 <= position /\ position <= current_leg_index
                            THEN current_leg_index + 1 ELSE current_leg_index
                     /\ last' = Result("insert_waypoint", TRUE, 0)
    /\ UNCHANGED <<nav_db, flight_plans, active_plan>>

insert_waypoint(wp_id, position) ==
    /\ IF active_plan = 0
       THEN /\ last' = Result("insert_waypoint", FALSE, 0)
            /\ UNCHANGED heap
       ELSE LET waypoint == find_waypoint(wp_id)
            IN  IF waypoint = None
                THEN /\ last' = Result("insert_waypoint", FALSE, 0)
                     /\ UNCHANGED heap
                ELSE /\ heap' = WithWaypoints(
                            ListInsert(ActiveWaypoints, position, Snapshot(waypoint[1])))
                     /\ last' = Result("insert_waypoint", TRUE, 0)
    /\ UNCHANGED <<nav_db, flight_plans, active_plan, current_leg_index>>

\* Variant: the index is decremented without the floor at 0.
LegIndexAfterDelete_NoFloor(position, leg_index) ==
    IF position <= leg_index THEN leg_index - 1 ELSE leg_index

\* Variant: the index is not adjusted at all.
LegIndexAfterDelete_NoAdjust(position, leg_index) == leg_index

\* `if position <= self.current_leg_index and self.current_leg_index > 0`
LegIndexAfterDelete(position, leg_index) ==
    IF position <= leg_index /\ leg_index > 0 THEN leg_index - 1 ELSE leg_index

\* `0 <= position < len(self.active_plan.waypoints)`
ValidPosition(position, waypoints) == 0 <= position /\ position < Len(waypoints)

\* Variant: the lower bound of the position is not checked, and a negative
\* position counts from the end of the list.
delete_waypoint_NegativeIndex(position) ==
    /\ IF NoPlanOrWaypoints
       THEN /\ last' = Result("delete_waypoint", FALSE, 0)
            /\ UNCHANGED <<heap, current_leg_index>>
       ELSE IF -Len(ActiveWaypoints) <= position /\ position < Len(ActiveWaypoints)
       THEN LET p == IF position < 0 THEN Len(ActiveWaypoints) + position ELSE position
            IN  /\ heap' = WithWaypoints(ListPop(ActiveWaypoints, p))
                /\ current_leg_index' = LegIndexAfterDelete(position, current_leg_index)
                /\ last' = [Result("delete_waypoint", TRUE, 0) EXCEPT
                               !.position = position, !.leg_index = current_leg_index]
       ELSE /\ last' = Result("delete_waypoint", FALSE, 0)
            /\ UNCHANGED <<heap, current_leg_index>>
    /\ UNCHANGED <<nav_db, flight_plans, active_plan>>

delete_waypoint(position) ==
    /\ IF NoPlanOrWaypoints
       THEN /\ last' = Result("delete_waypoint", FALSE, 0)
            /\ UNCHANGED <<heap, current_leg_index>>
       ELSE IF ValidPosition(position, ActiveWaypoints)
       THEN /\ heap' = WithWaypoints(ListPop(ActiveWaypoints, position))
            /\ current_leg_index' = LegIndexAfterDelete(position, current_leg_index)
            /\ last' = [Result("delete_waypoint", TRUE, 0) EXCEPT
                           !.position = position, !.leg_index = current_leg_index]
       ELSE /\ last' = Result("delete_waypoint", FALSE, 0)
            /\ UNCHANGED <<heap, current_leg_index>>
    /\ UNCHANGED <<nav_db, flight_plans, active_plan>>

\* Variant: a field that is not supplied is cleared.
Modified_Overwrite(waypoint, new_altitude, new_speed) ==
    [waypoint EXCEPT !.altitude = new_altitude, !.speed = new_speed]

\* The waypoint with the supplied fields assigned (None: not supplied).
Modified(waypoint, new_altitude, new_speed) ==
    [waypoint EXCEPT
        !.altitude = IF new_altitude # None THEN new_altitude ELSE @,
        !.speed = IF new_speed # None THEN new_speed ELSE @]

modify_waypoint(position, new_altitude, new_speed) ==
    /\ IF NoPlanOrWaypoints
       THEN /\ last' = Result("modify_waypoint", FALSE, 0)
            /\ UNCHANGED heap
       ELSE IF ValidPosition(position, ActiveWaypoints)
       THEN /\ heap' = WithWaypoints(
                   [ActiveWaypoints EXCEPT
                       ![position + 1] = Modified(@, new_altitude, new_speed)])
            /\ last' = Result("modify_waypoint", TRUE, 0)
       ELSE /\ last' = Result("modify_waypoint", FALSE, 0)
            /\ UNCHANGED heap
    /\ UNCHANGED <<nav_db, flight_plans, active_plan, current_leg_index>>

\* f"{procedure_id}_WP" for the procedure names the model uses.
ProcedureWaypointId(procedure_id) ==
    CASE procedure_id = "TEST_SID" -> "TEST_SID_WP"
      [] procedure_id = "TEST_STAR" -> "TEST_STAR_WP"
      [] OTHER -> "_WP"

add_procedure(procedure_type, procedure_id, position) ==
    /\ IF active_plan = 0
       THEN /\ last' = Result("add_procedure", FALSE, 0)
            /\ UNCHANGED heap
       ELSE LET proc_waypoint ==
                    FlightPlanWaypoint(ProcedureWaypointId(procedure_id), 0, 0,
                                       "procedure", Some(procedure_type))
            IN  /\ heap' = WithWaypoints(
                        IF position = "start"
                        THEN ListInsert(ActiveWaypoints, 0, proc_waypoint)
                        ELSE Append(ActiveWaypoints, proc_waypoint))
                /\ last' = Result("add_procedure", TRUE, 0)
    /\ UNCHANGED <<nav_db, flight_plans, active_plan, current_leg_index>>

\* expand_airway: the snapshots of the airway's waypoints that resolve.
RECURSIVE AirwaySnapshots(_)
AirwaySnapshots(rows) ==
    IF rows = <<>> THEN <<>>
    ELSE <<FlightPlanWaypoint(Head(rows).identifier, Head(rows).latitude,
                              Head(rows).longitude, "airway_waypoint", None)>>
         \o AirwaySnapshots(Tail(rows))

expand_airway(airway_id) == AirwaySnapshots(get_airway_waypoints(airway_id))

\* Variant: an identifier that does not resolve yields a placeholder waypoint.
SnapshotIfFound_Placeholder(identifier) ==
    LET waypoint == find_waypoint(identifier)
    IN  IF waypoint # None THEN <<Snapshot(waypoint[1])>>
        ELSE <<FlightPlanWaypoint(identifier, 0, 0, "waypoint", None)>>

\* The snapshot of an identifier that resolves; nothing for one that does not.
SnapshotIfFound(identifier) ==
    LET waypoint == find_waypoint(identifier)
    IN  IF waypoint # None THEN <<Snapshot(waypoint[1])>> ELSE <<>>

\* The loop of create_flight_plan over the route elements.
RECURSIVE ExpandRoute(_)
ExpandRoute(route) ==
    IF route = <<>> THEN <<>>
    ELSE (IF StartsWithAirwayPrefix(Head(route))
          THEN expand_airway(Head(route))
          ELSE SnapshotIfFound(Head(route)))
         \o ExpandRoute(Tail(route))

\* Variant: the arrival is not appended.
BuildWaypoints_NoArrival(departure, arrival, route) ==
    SnapshotIfFound(departure) \o ExpandRoute(route)

\* The waypoint list create_flight_plan builds.
BuildWaypoints(departure, arrival, route) ==
    SnapshotIfFound(departure) \o ExpandRoute(route) \o SnapshotIfFound(arrival)

\* The reference of a new object: a fresh cell.
NewRef == Len(heap) + 1

\* Variant: a departure or arrival that does not resolve makes the call fail.
create_flight_plan_HardFail(name, departure, arrival, route, cruise_alt, cruise_speed) ==
    IF find_waypoint(departure) = None \/ find_waypoint(arrival) = None
    THEN /\ last' = [Result("create_flight_plan", FALSE, 0) EXCEPT
                          !.args = <<name, departure, arrival, route>>]
         /\ UNCHANGED <<nav_db, heap, flight_plans, active_plan, current_leg_index>>
    ELSE LET flight_plan == FlightPlan(name, departure, arrival,
                                       BuildWaypoints(departure, arrival, route),
                                       cruise_alt, cruise_speed)
             stored == [flight_plans EXCEPT ![name] = NewRef]
         IN  /\ Len(Reachable(stored, active_plan)) <= MaxPlans
             /\ Store(Append(heap, flight_plan), stored, active_plan)
             /\ last' = [Result("create_flight_plan", TRUE,
                                Renumber(NewRef, stored, active_plan)) EXCEPT
                             !.args = <<name, departure, arrival, route>>]
             /\ UNCHANGED <<nav_db, current_leg_index>>

create_flight_plan(name, departure, arrival, route, cruise_alt, cruise_speed) ==
    LET flight_plan == FlightPlan(name, departure, arrival,
                                  BuildWaypoints(departure, arrival, route),
                                  cruise_alt, cruise_speed)
        stored == [flight_plans EXCEPT ![name] = NewRef]
    IN  /\ Len(Reachable(stored, active_plan)) <= MaxPlans
        /\ Store(Append(heap, flight_plan), stored, active_plan)
        /\ last' = [Result("create_flight_plan", TRUE,
                           Renumber(NewRef, stored, active_plan)) EXCEPT
                        !.args = <<name, departure, arrival, route>>]
        /\ UNCHANGED <<nav_db, current_leg_index>>

(***************************************************************************)
(* Persistence: to_dict / from_dict, save_flight_plan / load_flight_plan   *)
(*                                                                         *)
(* The text isoformat() writes is [kind |-> "iso", second, fraction]; the  *)
(* fraction is there only when microsecond is not 0.  A value of a JSON    *)
(* document that may be null is [kind |-> "null"] or [kind |-> "value",    *)
(* value].  A file is Missing, [kind |-> "garbage"] (not JSON) or          *)
(* [kind |-> "json", data] with the dictionary json.load returns.          *)
(***************************************************************************)
\* Variant: the text is written to the second.
isoformat_Seconds(d) == [kind |-> "iso", second |-> d.second, fraction |-> None]

\* datetime.isoformat()
isoformat(d) ==
    [kind |-> "iso", second |-> d.second,
     fraction |-> IF d.microsecond = 0 THEN None ELSE Some(d.microsecond)]

\* datetime.fromisoformat(text) for a text in ISO format (ValueError otherwise)
fromisoformat(text) ==
    datetime(text.second, IF text.fraction = None THEN 0 ELSE text.fraction[1])

\* None <-> null
JsonValue(optional) ==
    IF optional = None THEN [kind |-> "null"]
    ELSE [kind |-> "value", value |-> optional[1]]

PyValue(json) == IF json.kind = "null" THEN None ELSE Some(json.value)

\* FlightPlanWaypoint.to_dict: asdict(self)
FlightPlanWaypoint_to_dict(waypoint) ==
    [identifier |-> waypoint.identifier, latitude |-> waypoint.latitude,
     longitude |-> waypoint.longitude, altitude |-> JsonValue(waypoint.altitude),
     speed |-> JsonValue(waypoint.speed), waypoint_type |-> waypoint.waypoint_type,
     procedure_type |-> JsonValue(waypoint.procedure_type)]

\* FlightPlanWaypoint.from_dict: cls(**data)
FlightPlanWaypoint_from_dict(data) ==
    [identifier |-> data.identifier, latitude |-> data.latitude,
     longitude |-> data.longitude, altitude |-> PyValue(data.altitude),
     speed |-> PyValue(data.speed), waypoint_type |-> data.waypoint_type,
     procedure_type |-> PyValue(data.procedure_type)]

\* FlightPlan.to_dict: asdict(self) with created_date in ISO format
FlightPlan_to_dict(plan) ==
    [name |-> plan.name, departure |-> plan.departure, arrival |-> plan.arrival,
     waypoints |-> [i \in 1..Len(plan.waypoints) |->
                       FlightPlanWaypoint_to_dict(plan.waypoints[i])],
     cruise_altitude |-> plan.cruise_altitude, cruise_speed |-> plan.cruise_speed,
     route_distance |-> plan.route_distance, estimated_time |-> plan.estimated_time,
     created_date |-> isoformat(plan.created_date)]

\* The fields of FlightPlan, and those without a default.
FlightPlanFields ==
    {"name", "departure", "arrival", "waypoints", "cruise_altitude", "cruise_speed",
     "route_distance", "estimated_time", "created_date"}

RequiredFields == {"name", "departure", "arrival", "waypoints"}

\* data[key], or the field's default when the key is absent.
FieldOr(data, key, default) == IF key \in DOMAIN data THEN data[key] ELSE default

\* Variant: a created_date that is not in ISO format is replaced by now().
FlightPlan_from_dict_Lenient(data) ==
    IF ~(RequiredFields \subseteq DOMAIN data /\ DOMAIN data \subseteq FlightPlanFields)
    THEN None
    ELSE Some(
        [name |-> data.name, departure |-> data.departure, arrival |-> data.arrival,
         waypoints |-> [i \in 1..Len(data.waypoints) |->
                           FlightPlanWaypoint_from_dict(data.waypoints[i])],
         cruise_altitude |-> FieldOr(data, "cruise_altitude", 35000),
         cruise_speed |-> FieldOr(data, "cruise_speed", 450),
         route_distance |-> FieldOr(data, "route_distance", 0),
         estimated_time |-> FieldOr(data, "estimated_time", 0),
         created_date |->
             IF "created_date" \in DOMAIN data /\ data.created_date.kind = "iso"
             THEN fromisoformat(data.created_date)
             ELSE datetime_now])

\* FlightPlan.from_dict: the plan, or None where the code raises (ValueError
\* from fromisoformat, TypeError from cls(**data)).
FlightPlan_from_dict(data) ==
    IF "created_date" \in DOMAIN data /\ data.created_date.kind \notin {"null", "iso"}
    THEN None
    ELSE IF ~(RequiredFields \subseteq DOMAIN data /\ DOMAIN data \subseteq FlightPlanFields)
    THEN None
    ELSE Some(
        [name |-> data.name, departure |-> data.departure, arrival |-> data.arrival,
         waypoints |-> [i \in 1..Len(data.waypoints) |->
                           FlightPlanWaypoint_from_dict(data.waypoints[i])],
         cruise_altitude |-> FieldOr(data, "cruise_altitude", 35000),
         cruise_speed |-> FieldOr(data, "cruise_speed", 450),
         route_distance |-> FieldOr(data, "route_distance", 0),
         estimated_time |-> FieldOr(data, "estimated_time", 0),
         created_date |->
             IF "created_date" \in DOMAIN data /\ data.created_date.kind = "iso"
             THEN fromisoformat(data.created_date)
             ELSE datetime_now])

\* os.path.dirname(filename) is not empty.
HasDirectory(filename) == filename = "plans/P1.json"

\* save_flight_plan(flight_plan, filename).  makedirs raises for a path without
\* a directory; open(filename, 'w') then creates the file, and with None
\* flight_plan.to_dict() raises and leaves it empty.
save_flight_plan(flight_plan, filename) ==
    /\ IF ~HasDirectory(filename)
       THEN /\ last' = [Result("save_flight_plan", FALSE, 0) EXCEPT
                           !.args = <<flight_plan, filename>>]
            /\ UNCHANGED files
       ELSE IF flight_plan = 0
       THEN /\ files' = [files EXCEPT ![filename] = [kind |-> "garbage"]]
            /\ last' = [Result("save_flight_plan", FALSE, 0) EXCEPT
                           !.args = <<flight_plan, filename>>]
       ELSE /\ files' = [files EXCEPT ![filename] =
                            [kind |-> "json", data |-> FlightPlan_to_dict(heap[flight_plan])]]
            /\ last' = [Result("save_flight_plan", TRUE, 0) EXCEPT
                           !.args = <<flight_plan, filename>>]
    /\ UNCHANGED <<nav_db, heap, flight_plans, active_plan, current_leg_index>>

\* load_flight_plan(filename): open raises for a missing file, json.load for a
\* file that is not JSON, from_dict for a dictionary that is no plan; each
\* returns None before anything is assigned.
load_flight_plan(filename) ==
    /\ LET content == files[filename]
           loaded == IF content.kind = "json" THEN FlightPlan_from_dict(content.data)
                     ELSE None
       IN  IF loaded = None
           THEN /\ last' = [Result("load_flight_plan", FALSE, 0) EXCEPT
                               !.args = <<filename>>]
                /\ UNCHANGED <<heap, flight_plans, active_plan>>
           ELSE LET flight_plan == loaded[1]
                    stored == [flight_plans EXCEPT ![flight_plan.name] = NewRef]
                IN  /\ Len(Reachable(stored, active_plan)) <= MaxPlans
                    /\ Store(Append(heap, flight_plan), stored, active_plan)
                    /\ last' = [Result("load_flight_plan", TRUE,
                                       Renumber(NewRef, stored, active_plan)) EXCEPT
                                   !.args = <<filename>>]
    /\ UNCHANGED <<nav_db, current_leg_index, files>>

(***************************************************************************)
(* Edits of the waypoints table behind the manager                         *)
(***************************************************************************)
\* SQL UPPER and str.upper() on the identifiers the model uses.
Upper(s) ==
    CASE s = "sfo" -> "SFO"
      [] s = "koak" -> "KOAK"
      [] s = "nope" -> "NOPE"
      [] OTHER -> s

\* The CHECK constraints of the waypoints table, in units of 1e-4 degree.
CheckCoordinates(row) ==
    /\ -900000 <= row.latitude /\ row.latitude <= 900000
    /\ -1800000 <= row.longitude /\ row.longitude <= 1800000

\* The table with the row of this identifier inserted or replaced.
InsertOrReplace(table, waypoint) ==
    [id \in DOMAIN table \cup {waypoint.identifier} |->
        IF id = waypoint.identifier THEN waypoint ELSE table[id]]

\* Variant: the plans hold the rows themselves, so replacing a row shows in
\* every plan waypoint with that identifier.
add_waypoint_Aliased(waypoint) ==
    LET Rewritten(w) ==
            IF w.identifier = waypoint.identifier
            THEN [w EXCEPT !.latitude = waypoint.latitude,
                           !.longitude = waypoint.longitude,
                           !.waypoint_type = waypoint.waypoint_type]
            ELSE w
        RewrittenPlan(plan) ==
            [plan EXCEPT !.waypoints =
                [i \in 1..Len(plan.waypoints) |-> Rewritten(plan.waypoints[i])]]
    IN  /\ CheckCoordinates(waypoint)
        /\ nav_db' = InsertOrReplace(nav_db, waypoint)
        /\ heap' = [r \in 1..Len(heap) |-> RewrittenPlan(heap[r])]
        /\ last' = [Result("add_waypoint", TRUE, 0) EXCEPT
                       !.args = <<waypoint.identifier>>]
        /\ UNCHANGED <<flight_plans, active_plan, current_leg_index>>

\* NavigationDatabase.add_waypoint: INSERT OR REPLACE INTO waypoints.  There
\* is no handler: a row the CHECK constraints refuse raises
\* sqlite3.IntegrityError to the caller.
add_waypoint(waypoint) ==
    /\ IF CheckCoordinates(waypoint)
       THEN /\ nav_db' = InsertOrReplace(nav_db, waypoint)
            /\ last' = [Result("add_waypoint", TRUE, 0) EXCEPT
                           !.args = <<waypoint.identifier>>]
       ELSE /\ UNCHANGED nav_db
            /\ last' = [Result("add_waypoint", FALSE, 0) EXCEPT
                           !.args = <<waypoint.identifier>>, !.raised = TRUE]
    /\ UNCHANGED <<heap, flight_plans, active_plan, current_leg_index>>

\* DELETE FROM waypoints WHERE UPPER(identifier) = UPPER(?); True when a row
\* went.
WaypointDatabase_delete_waypoint(identifier) ==
    LET kept == {id \in DOMAIN nav_db : Upper(id) # Upper(identifier)}
    IN  /\ nav_db' = [id \in kept |-> nav_db[id]]
        /\ last' = [Result("WaypointDatabase.delete_waypoint", kept # DOMAIN nav_db, 0)
                       EXCEPT !.args = <<identifier>>]
        /\ UNCHANGED <<heap, flight_plans, active_plan, current_leg_index>>

(***************************************************************************)
(* WaypointDatabase, on the same waypoints table (the bridge opens both    *)
(* classes on one path).  Frequencies are in units of 0.1.                 *)
(***************************************************************************)
\* waypoint_database.Waypoint: the fields the table's checks and
\* validate_waypoint_data read.
WaypointRecord(identifier, latitude, longitude, waypoint_type, frequency) ==
    [identifier |-> identifier, latitude |-> latitude, longitude |-> longitude,
     altitude |-> None, waypoint_type |-> waypoint_type, frequency |-> frequency]

\* Waypoint.is_valid_coordinates
is_valid_coordinates(waypoint) ==
    /\ -900000 <= waypoint.latitude /\ waypoint.latitude <= 900000
    /\ -1800000 <= waypoint.longitude /\ waypoint.longitude <= 1800000

valid_types == {"AIRPORT", "VOR", "NDB", "WAYPOINT", "INTERSECTION", "DME", "TACAN"}

\* `identifier.replace('_', '').replace('-', '').isalnum()` on the identifiers
\* the model uses.
IsAlnumIdentifier(identifier) == identifier # ""

\* validate_waypoint_data: the errors found, all of them.
validate_waypoint_data(waypoint) ==
    (IF waypoint.identifier = "" THEN {"Identifier is required"} ELSE {})
    \cup (IF ~is_valid_coordinates(waypoint)
          THEN {"Invalid latitude or longitude coordinates"} ELSE {})
    \cup (IF waypoint.identifier # "" /\ ~IsAlnumIdentifier(waypoint.identifier)
          THEN {"Identifier contains invalid characters"} ELSE {})
    \cup (IF waypoint.waypoint_type \notin valid_types
          THEN {"Invalid waypoint type"} ELSE {})
    \cup (IF /\ waypoint.waypoint_type \in {"VOR", "NDB", "DME", "TACAN"}
             /\ waypoint.frequency # None
             /\ waypoint.frequency[1] # 0
          THEN IF /\ waypoint.waypoint_type = "VOR"
                  /\ ~(1080 <= waypoint.frequency[1] /\ waypoint.frequency[1] <= 1180)
               THEN {"VOR frequency must be between 108.0 and 118.0 MHz"}
               ELSE IF /\ waypoint.waypoint_type = "NDB"
                       /\ ~(1900 <= waypoint.frequency[1]
                               /\ waypoint.frequency[1] <= 17500)
               THEN {"NDB frequency must be between 190 and 1750 kHz"}
               ELSE {}
          ELSE {})

\* WaypointDatabase.add_waypoint: INSERT OR REPLACE inside a try; a row the
\* CHECK constraints refuse ends in the handler, which returns False.
WaypointDatabase_add_waypoint(waypoint) ==
    /\ IF CheckCoordinates(waypoint)
       THEN /\ nav_db' = InsertOrReplace(nav_db, waypoint)
            /\ last' = [Result("WaypointDatabase.add_waypoint", TRUE, 0) EXCEPT
                           !.args = <<waypoint>>]
       ELSE /\ UNCHANGED nav_db
            /\ last' = [Result("WaypointDatabase.add_waypoint", FALSE, 0) EXCEPT
                           !.args = <<waypoint>>]
    /\ UNCHANGED <<heap, flight_plans, active_plan, current_leg_index>>

\* WaypointDatabase.find_waypoint: SELECT ... WHERE UPPER(identifier) =
\* UPPER(?), fetchone, and Waypoint.from_dict of the row, whose __post_init__
\* writes the identifier in upper case.
WaypointDatabase_find_waypoint(identifier) ==
    LET matching == {id \in DOMAIN nav_db : Upper(id) = Upper(identifier)}
    IN  IF matching = {} THEN None
        ELSE LET row == nav_db[CHOOSE id \in matching : TRUE]
             IN  Some([row EXCEPT !.identifier = Upper(row.identifier)])

(***************************************************************************)
(* The manager driven by any caller                                        *)
(***************************************************************************)
Departures == {"KSFO"}
Arrivals == {"KOAK"}
Routes == {<<>>, <<"SFO">>}
InsertIds == {"SFO", "NOPE"}
Positions == -1..(MaxWaypoints + 1)
Altitudes == {None, Some(10000)}
Speeds == {None, Some(300)}

\* The plans a caller can pass: None, or one the manager holds.
CallerPlans == {0} \cup (1..Len(heap))

\* The loop of the end-of-route test is not running, and no file is touched.
Idle == UNCHANGED <<files, pc, calls, optimizer>>

Create ==
    /\ \E name \in Names, departure \in Departures, arrival \in Arrivals,
          route \in Routes :
           create_flight_plan(name, departure, arrival, route, 35000, 450)
    /\ Idle

SetActive ==
    /\ \E flight_plan \in CallerPlans : set_active_plan(flight_plan)
    /\ Idle

Clear == clear_active_plan /\ Idle

Advance == advance_to_next_leg /\ Idle

\* The plan may still grow (the bound on its length).
MayGrow == active_plan # 0 => Len(ActiveWaypoints) < MaxWaypoints

Insert ==
    /\ MayGrow
    /\ \E wp_id \in InsertIds, position \in Positions :
           insert_waypoint(wp_id, position)
    /\ Idle

Delete ==
    /\ \E position \in Positions : delete_waypoint(position)
    /\ Idle

Modify ==
    /\ \E position \in Positions, new_altitude \in Altitudes, new_speed \in Speeds :
           modify_waypoint(position, new_altitude, new_speed)
    /\ Idle

AddProcedure ==
    /\ MayGrow
    /\ \E position \in {"start", "end"} : add_procedure("SID", "TEST_SID", position)
    /\ Idle

Next ==
    \/ Create
    \/ SetActive
    \/ Clear
    \/ Advance
    \/ Insert
    \/ Delete
    \/ Modify
    \/ AddProcedure

Spec == Init /\ [][Next]_vars

(***************************************************************************)
(* create_flight_plan alone, over departures, arrivals and routes that do  *)
(* and do not resolve                                                      *)
(***************************************************************************)
BuildEndpoints == {"KSFO", "KOAK", "NOPE"}
BuildTokens == {"SFO", "V200", "NOPE", "TANGO"}

SeqsUpTo(S, n) == UNION {[1..k -> S] : k \in 0..n}

BuildRoutes == SeqsUpTo(BuildTokens, MaxRoute)

BuildCreate ==
    /\ \E name \in Names, departure \in BuildEndpoints, arrival \in BuildEndpoints,
          route \in BuildRoutes :
           create_flight_plan(name, departure, arrival, route, 35000, 450)
    /\ Idle

NextBuild == BuildCreate

SpecBuild == Init /\ [][NextBuild]_vars

(***************************************************************************)
(* create_flight_plan alone, over a store that also holds waypoints whose  *)
(* identifiers start with an airway prefix                                 *)
(***************************************************************************)
\* A waypoint named like no airway, and one named like the airway V200.
PrefixedWaypoints ==
    {Waypoint("TANGO", 370000, -1220000, None, "WAYPOINT"),
     Waypoint("V200", 371000, -1221000, None, "VOR")}

RECURSIVE InsertAll(_, _)
InsertAll(table, waypoints) ==
    IF waypoints = {} THEN table
    ELSE LET waypoint == CHOOSE w \in waypoints : TRUE
         IN  InsertAll(InsertOrReplace(table, waypoint), waypoints \ {waypoint})

InitAirway ==
    /\ \E added \in SUBSET PrefixedWaypoints :
          nav_db = InsertAll(initialize_database, added)
    /\ heap = <<>>
    /\ flight_plans = [n \in Names |-> 0]
    /\ active_plan = 0
    /\ current_leg_index = 0
    /\ last = Result("__init__", TRUE, 0)
    /\ files = NoFiles
    /\ optimizer = NoOptimizer
    /\ pc = "idle"
    /\ calls = 0

AirwayCreate ==
    /\ \E name \in Names, arrival \in {"KOAK", "NOPE"}, route \in BuildRoutes :
           create_flight_plan(name, "KSFO", arrival, route, 35000, 450)
    /\ Idle

NextAirway == AirwayCreate

SpecAirway == InitAirway /\ [][NextAirway]_vars

(***************************************************************************)
(* The end-of-route loop of test_end_of_route_handling, from a plan that   *)
(* set_active_plan has just made active:                                   *)
(*     while not manager.is_end_of_route(): manager.advance_to_next_leg()  *)
(*     result = manager.advance_to_next_leg()                              *)
(***************************************************************************)
RouteWaypoints ==
    {Snapshot(initialize_database[id]) : id \in {"KSFO", "SFO", "KOAK"}}

InitRoute ==
    /\ nav_db = initialize_database
    /\ \E waypoints \in SeqsUpTo(RouteWaypoints, MaxLegs) :
          heap = <<FlightPlan("P1", "KSFO", "KOAK", waypoints, 35000, 450)>>
    /\ flight_plans = [n \in Names |-> 1]
    /\ active_plan = 1
    /\ current_leg_index = 0
    /\ last = Result("set_active_plan", TRUE, 0)
    /\ pc = "loop"
    /\ files = NoFiles
    /\ optimizer = NoOptimizer
    /\ calls = 0

LoopAdvance ==
    /\ pc = "loop"
    /\ ~is_end_of_route
    /\ advance_to_next_leg
    /\ calls' = IF last'.ret THEN calls + 1 ELSE calls
    /\ pc' = "loop"
    /\ UNCHANGED <<files, optimizer>>

LoopExit ==
    /\ pc = "loop"
    /\ is_end_of_route
    /\ pc' = "end"
    /\ UNCHANGED <<nav_db, heap, flight_plans, active_plan, current_leg_index, last,
                   files, calls, optimizer>>

PastEnd ==
    /\ pc = "end"
    /\ advance_to_next_leg
    /\ pc' = "done"
    /\ UNCHANGED <<files, calls, optimizer>>

NextRoute == LoopAdvance \/ LoopExit \/ PastEnd

\* The test runs on one thread to its end: a step that can be taken is taken.
SpecRoute == InitRoute /\ [][NextRoute]_vars /\ WF_vars(NextRoute)

(***************************************************************************)
(* delete_waypoint, modify_waypoint and advance_to_next_leg on an active   *)
(* plan of any waypoints, for every position, altitude and speed           *)
(***************************************************************************)
EditWaypoints ==
    {Snapshot(initialize_database[id]) : id \in {"KSFO", "KOAK"}}

InitEdit ==
    /\ nav_db = initialize_database
    /\ \E waypoints \in SeqsUpTo(EditWaypoints, MaxWaypoints) :
          heap = <<FlightPlan("P1", "KSFO", "KOAK", waypoints, 35000, 450)>>
    /\ flight_plans = [n \in Names |-> 1]
    /\ active_plan = 1
    /\ current_leg_index = 0
    /\ last = Result("set_active_plan", TRUE, 0)
    /\ pc = "idle"
    /\ files = NoFiles
    /\ optimizer = NoOptimizer
    /\ calls = 0

NextEdit ==
    \/ Advance
    \/ Delete
    \/ Modify

SpecEdit == InitEdit /\ [][NextEdit]_vars

(***************************************************************************)
(* The manager with its files: every operation, save_flight_plan and       *)
(* load_flight_plan, and a file system in which a file can be damaged,     *)
(* from a manager that holds one plan made earlier                         *)
(***************************************************************************)
\* Waypoint lists of the plan held at the start: none, the two endpoints, and
\* a list with a modified waypoint and a procedure waypoint.
EnvWaypointLists ==
    LET KSFO == Snapshot(initialize_database["KSFO"])
        KOAK == Snapshot(initialize_database["KOAK"])
    IN  {<<>>,
         <<KSFO, KOAK>>,
         <<Modified(KSFO, Some(10000), None), KOAK,
           FlightPlanWaypoint(ProcedureWaypointId("TEST_SID"), 0, 0, "procedure",
                              Some("SID"))>>}

\* Creation times before now: on a whole second, and not.
EnvDates == {datetime(1, 0), datetime(1, 500000)}

\* What damage leaves in a file: text that is not JSON, JSON that lacks the
\* plan's fields, and a plan's JSON whose created_date is not a date.
DamagedContents ==
    {[kind |-> "garbage"],
     [kind |-> "json", data |-> [name |-> "P1"]],
     [kind |-> "json",
      data |-> [FlightPlan_to_dict(FlightPlan("P1", "KSFO", "KOAK", <<>>, 35000, 450))
                   EXCEPT !.created_date = [kind |-> "text"]]]}

InitEnv ==
    /\ nav_db = initialize_database
    /\ \E waypoints \in EnvWaypointLists, created_date \in EnvDates :
          heap = <<[FlightPlan("P1", "KSFO", "KOAK", waypoints, 35000, 450)
                       EXCEPT !.created_date = created_date]>>
    /\ flight_plans = [n \in Names |-> 1]
    /\ active_plan \in {0, 1}
    /\ current_leg_index = 0
    /\ last = Result("create_flight_plan", TRUE, 1)
    /\ files = NoFiles
    /\ optimizer = NoOptimizer
    /\ pc = "idle"
    /\ calls = 0

\* One more call is made.
Counted == calls < MaxCalls /\ calls' = calls + 1 /\ UNCHANGED <<pc, optimizer>>

EnvCreate ==
    /\ create_flight_plan("P1", "KSFO", "KOAK", <<>>, 35000, 450)
    /\ Counted /\ UNCHANGED files

EnvSetActive ==
    /\ \E flight_plan \in CallerPlans : set_active_plan(flight_plan)
    /\ Counted /\ UNCHANGED files

EnvClear == clear_active_plan /\ Counted /\ UNCHANGED files

EnvAdvance == advance_to_next_leg /\ Counted /\ UNCHANGED files

EnvInsert == insert_waypoint("SFO", 0) /\ Counted /\ UNCHANGED files

EnvDelete == delete_waypoint(0) /\ Counted /\ UNCHANGED files

EnvModify == modify_waypoint(0, None, Some(300)) /\ Counted /\ UNCHANGED files

EnvAddProcedure ==
    add_procedure("STAR", "TEST_STAR", "end") /\ Counted /\ UNCHANGED files

Save ==
    /\ \E flight_plan \in CallerPlans, filename \in Filenames :
           save_flight_plan(flight_plan, filename)
    /\ Counted

Load ==
    /\ \E filename \in Filenames : load_flight_plan(filename)
    /\ Counted

\* Something else writes to the file.
Damage ==
    /\ \E content \in DamagedContents :
           files' = [files EXCEPT !["plans/P1.json"] = content]
    /\ last' = Result("damage", TRUE, 0)
    /\ Counted
    /\ UNCHANGED <<nav_db, heap, flight_plans, active_plan, current_leg_index>>

NextEnv ==
    \/ EnvCreate
    \/ EnvSetActive
    \/ EnvClear
    \/ EnvAdvance
    \/ EnvInsert
    \/ EnvDelete
    \/ EnvModify
    \/ EnvAddProcedure
    \/ Save
    \/ Load
    \/ Damage

SpecEnv == InitEnv /\ [][NextEnv]_vars

(***************************************************************************)
(* The manager while the waypoints table is edited behind it               *)
(***************************************************************************)
\* Rows written over existing ones, with other coordinates and another type.
StoreRows ==
    {Waypoint("SFO", 0, 0, None, "NDB"),
     Waypoint("KOAK", 1, 1, Some(9), "AIRPORT")}

StoreDeletions == {"sfo", "KOAK", "NOPE"}

StoreAdd ==
    /\ \E waypoint \in StoreRows : add_waypoint(waypoint)
    /\ Idle

StoreDelete ==
    /\ \E identifier \in StoreDeletions : WaypointDatabase_delete_waypoint(identifier)
    /\ Idle

NextStore ==
    \/ Create
    \/ SetActive
    \/ Advance
    \/ Insert
    \/ StoreAdd
    \/ StoreDelete

SpecStore == Init /\ [][NextStore]_vars

(***************************************************************************)
(* The waypoints table under the calls of both store classes               *)
(***************************************************************************)
\* Waypoints a caller hands to WaypointDatabase.add_waypoint: inside and
\* outside the coordinate bounds, with frequencies inside and outside the
\* range of their type.
WaypointInputs ==
    {WaypointRecord(identifier, latitude, -1223750, tf[1], tf[2]) :
        identifier \in {"SFO", "KOAK"},
        latitude \in {376189, 950000},
        tf \in {<<"VOR", Some(1139)>>, <<"VOR", Some(2000)>>,
                <<"NDB", Some(3500)>>, <<"NDB", Some(500)>>,
                <<"WAYPOINT", None>>}}

\* Rows NavigationDatabase.add_waypoint writes for the Waypoints a caller
\* hands it (no frequency): one in lower case, one outside the bounds.
NavigationInputs ==
    {WaypointRecord("sfo", 376189, -1223750, "VOR", None),
     WaypointRecord("KOAK", 950000, -1222208, "AIRPORT", None)}

LookupIds == {"SFO", "sfo", "KOAK", "koak", "NOPE", "nope"}

\* The rows of initialize_database with their frequency column: SFO is a VOR
\* on 113.9.
initialize_database_frequency ==
    [id \in DOMAIN initialize_database |->
        LET w == initialize_database[id]
        IN  [identifier |-> w.identifier, latitude |-> w.latitude,
             longitude |-> w.longitude, altitude |-> w.altitude,
             waypoint_type |-> w.waypoint_type,
             frequency |-> IF id = "SFO" THEN Some(1139) ELSE None]]

\* NavigationDatabase.initialize_database has filled the table;
\* WaypointDatabase.initialize_database inserts nothing.
InitWaypoints ==
    /\ nav_db = initialize_database_frequency
    /\ heap = <<>>
    /\ flight_plans = [n \in Names |-> 0]
    /\ active_plan = 0
    /\ current_leg_index = 0
    /\ last = Result("__init__", TRUE, 0)
    /\ files = NoFiles
    /\ optimizer = NoOptimizer
    /\ pc = "idle"
    /\ calls = 0

WaypointAdd ==
    /\ \E waypoint \in WaypointInputs : WaypointDatabase_add_waypoint(waypoint)
    /\ Idle

NavigationAdd ==
    /\ \E waypoint \in NavigationInputs : add_waypoint(waypoint)
    /\ Idle

WaypointDelete ==
    /\ \E identifier \in LookupIds : WaypointDatabase_delete_waypoint(identifier)
    /\ Idle

\* A lookup through WaypointDatabase; the call and what it returned are kept.
WaypointFind ==
    /\ \E identifier \in LookupIds :
          LET found == WaypointDatabase_find_waypoint(identifier)
          IN  last' = [Result("WaypointDatabase.find_waypoint", found # None, 0) EXCEPT
                          !.args = <<identifier, found>>]
    /\ UNCHANGED <<nav_db, heap, flight_plans, active_plan, current_leg_index>>
    /\ Idle

\* A lookup through NavigationDatabase, as the manager makes it.
NavigationFind ==
    /\ \E identifier \in LookupIds :
          LET found == find_waypoint(identifier)
          IN  last' = [Result("find_waypoint", found # None, 0) EXCEPT
                          !.args = <<identifier, found>>]
    /\ UNCHANGED <<nav_db, heap, flight_plans, active_plan, current_leg_index>>
    /\ Idle

NextWaypoints ==
    \/ WaypointAdd
    \/ NavigationAdd
    \/ WaypointDelete
    \/ WaypointFind
    \/ NavigationFind

SpecWaypoints == InitWaypoints /\ [][NextWaypoints]_vars

(***************************************************************************)
(* Properties                                                              *)
(***************************************************************************)
IdsOf(waypoints) == [i \in 1..Len(waypoints) |-> waypoints[i].identifier]

Resolves(identifier) == identifier \in DOMAIN nav_db

\* C1 (as claimed): whenever a plan is active,
\* 0 <= current_leg_index <= len(active_plan.waypoints) - 1.
C1_CursorInRange ==
    Active => /\ 0 <= current_leg_index
              /\ current_leg_index <= Len(ActiveWaypoints) - 1

\* C1 (amended): whenever a plan is active, 0 <= current_leg_index, and
\* current_leg_index <= len(waypoints) - 1 unless the waypoint list is empty,
\* in which case current_leg_index is 0.
C1_CursorInRangeOrEmpty ==
    Active => /\ 0 <= current_leg_index
              /\ current_leg_index <= Max(Len(ActiveWaypoints) - 1, 0)

\* A delete has just removed a waypoint while the cursor stood on the last
\* waypoint, and the cursor stands on the last waypoint again.
C1_Witness ==
    /\ Active
    /\ last.op = "delete_waypoint" /\ last.ret
    /\ last.leg_index = Len(ActiveWaypoints)
    /\ Len(ActiveWaypoints) >= 2
    /\ current_leg_index = Len(ActiveWaypoints) - 1

\* C2: advance_to_next_leg returns True, and then adds exactly 1 to
\* current_leg_index, if and only if a plan is active and
\* current_leg_index < len(waypoints) - 1; otherwise it returns False and
\* leaves the active plan, its waypoints and current_leg_index unchanged.
C2_AdvanceContract ==
    [][last'.op = "advance_to_next_leg" =>
          /\ last'.ret <=> (Active /\ current_leg_index < Len(ActiveWaypoints) - 1)
          /\ last'.ret => current_leg_index' = current_leg_index + 1
          /\ ~last'.ret => current_leg_index' = current_leg_index
          /\ UNCHANGED <<active_plan, heap, flight_plans>>]_vars

\* advance_to_next_leg has advanced at least once and has just been refused
\* on the last waypoint.
C2_Witness ==
    /\ last.op = "advance_to_next_leg" /\ ~last.ret
    /\ Active
    /\ current_leg_index >= 1
    /\ current_leg_index = Len(ActiveWaypoints) - 1

C3_LoopInvariant ==
    Len(ActiveWaypoints) >= 1 =>
        /\ calls = current_leg_index
        /\ pc = "loop" => /\ calls <= Len(ActiveWaypoints) - 1
                          /\ calls >= 1 => last.ret
        /\ pc \in {"end", "done"} =>
              /\ calls = Len(ActiveWaypoints) - 1
              /\ current_leg_index = Len(ActiveWaypoints) - 1
              /\ is_end_of_route
              /\ get_current_leg = None
              /\ get_next_waypoint = None
        /\ pc = "done" => last.op = "advance_to_next_leg" /\ ~last.ret

\* C3: from a plan of n >= 1 waypoints just made active, exactly n - 1
\* advance_to_next_leg calls succeed; then is_end_of_route is True and
\* get_current_leg and get_next_waypoint return None; the next call returns
\* False with current_leg_index still n - 1; and the loop
\* `while not is_end_of_route: advance` ends.
C3_EndOfRouteLoop == []C3_LoopInvariant /\ <>(pc = "done")

\* The loop has run over a plan of 4 waypoints and the call after it is done.
C3_Witness ==
    /\ pc = "done"
    /\ Len(ActiveWaypoints) = 4
    /\ calls = 3

\* C4: a successful delete_waypoint(p) removes exactly the waypoint at index
\* p, the others keeping their order, and sets current_leg_index to
\* current_leg_index - 1 if p <= current_leg_index and current_leg_index > 0,
\* leaving it unchanged otherwise.
C4_DeleteEffect ==
    [][(last'.op = "delete_waypoint" /\ last'.ret) =>
          LET p == last'.position
              w == ActiveWaypoints
          IN  /\ 0 <= p /\ p < Len(w)
              /\ active_plan' = active_plan
              /\ heap'[active_plan].waypoints =
                     [i \in 1..(Len(w) - 1) |-> IF i <= p THEN w[i] ELSE w[i + 1]]
              /\ current_leg_index' =
                     IF p <= current_leg_index /\ current_leg_index > 0
                     THEN current_leg_index - 1
                     ELSE current_leg_index
              /\ (p = 0 /\ current_leg_index = 0) => current_leg_index' = 0
              /\ p > current_leg_index => current_leg_index' = current_leg_index]_vars

\* Position 0 has just been deleted with the cursor at 0, and waypoints remain.
C4_Witness ==
    /\ last.op = "delete_waypoint" /\ last.ret
    /\ last.position = 0 /\ last.leg_index = 0
    /\ current_leg_index = 0
    /\ Len(ActiveWaypoints) >= 2

\* C5 (as claimed): after a successful delete_waypoint(p) with
\* p <= current_leg_index, get_next_waypoint returns the same waypoint as
\* before, for every cursor value including 0.
C5_NextWaypointKept ==
    [][(last'.op = "delete_waypoint" /\ last'.ret
            /\ last'.position <= current_leg_index) =>
          get_next_waypoint' = get_next_waypoint]_vars

\* C5 (amended): after a successful delete_waypoint(p) with
\* p <= current_leg_index and current_leg_index > 0, get_next_waypoint
\* returns the same waypoint as before.
C5_NextWaypointKeptPastFirst ==
    [][(last'.op = "delete_waypoint" /\ last'.ret
            /\ last'.position <= current_leg_index /\ current_leg_index > 0) =>
          get_next_waypoint' = get_next_waypoint]_vars

\* A waypoint at or before a cursor past 0 has just been deleted, and there
\* is a next waypoint.
C5_Witness ==
    /\ last.op = "delete_waypoint" /\ last.ret
    /\ last.leg_index > 0 /\ last.position <= last.leg_index
    /\ get_next_waypoint # None

WellFormed(plan) ==
    /\ Len(plan.waypoints) >= 2
    /\ plan.waypoints[1].identifier = plan.departure
    /\ plan.waypoints[Len(plan.waypoints)].identifier = plan.arrival

\* C6 (as claimed): every plan the manager holds has at least 2 waypoints,
\* the first with the departure's identifier and the last with the arrival's.
C6_PlansWellFormed == \A r \in 1..Len(heap) : WellFormed(heap[r])

\* C6 (amended): a plan create_flight_plan has just returned, built from a
\* departure and an arrival that resolve, has at least 2 waypoints, the first
\* with the departure's identifier and the last with the arrival's.
C6_CreatedPlanWellFormed ==
    (last.op = "create_flight_plan" /\ last.plan # 0) =>
        ((Resolves(heap[last.plan].departure) /\ Resolves(heap[last.plan].arrival))
            => WellFormed(heap[last.plan]))

\* A plan with a route waypoint has just been created.
C6_Witness ==
    /\ last.op = "create_flight_plan" /\ last.plan # 0
    /\ IdsOf(heap[last.plan].waypoints) = <<"KSFO", "SFO", "KOAK">>

\* The arguments of the create_flight_plan call that has just returned.
CreateName == last.args[1]
CreateDeparture == last.args[2]
CreateArrival == last.args[3]
CreateRoute == last.args[4]

\* C7 (as claimed): create_flight_plan returns None and registers nothing
\* when the departure or the arrival does not resolve.
C7_UnresolvedEndpointFails ==
    [][(last'.op = "create_flight_plan"
            /\ (~Resolves(CreateDeparture') \/ ~Resolves(CreateArrival'))) =>
          (last'.plan = 0 /\ flight_plans' = flight_plans)]_vars

\* C7 (amended): when the departure or the arrival does not resolve,
\* create_flight_plan still returns a plan and registers it under its name;
\* the endpoint that does not resolve contributes no waypoint.
C7_UnresolvedEndpointOmitted ==
    (last.op = "create_flight_plan"
        /\ (~Resolves(CreateDeparture) \/ ~Resolves(CreateArrival))) =>
        /\ last.plan # 0
        /\ flight_plans[CreateName] = last.plan
        /\ LET w == heap[last.plan].waypoints
           IN  /\ Len(w) = Len(ExpandRoute(CreateRoute))
                           + (IF Resolves(CreateDeparture) THEN 1 ELSE 0)
                           + (IF Resolves(CreateArrival) THEN 1 ELSE 0)
               /\ \A i \in 1..Len(w) : Resolves(w[i].identifier)
               /\ Resolves(CreateArrival) => w[Len(w)].identifier = CreateArrival
               /\ Resolves(CreateDeparture) => w[1].identifier = CreateDeparture

\* A plan has just been created from a departure that does not resolve, an
\* arrival that does and a route that contributes waypoints.
C7_Witness ==
    /\ last.op = "create_flight_plan" /\ last.plan # 0
    /\ CreateDeparture = "NOPE"
    /\ CreateArrival = "KOAK"
    /\ Len(heap[last.plan].waypoints) >= 2

\* C8: create_flight_plan returns a plan and stores it under its name for
\* every departure, arrival and route, also when none of them resolves; with
\* endpoints that resolve and an empty route the plan has exactly 2 waypoints.
C8_CreateAlwaysReturnsPlan ==
    last.op = "create_flight_plan" =>
        /\ last.ret /\ last.plan # 0
        /\ flight_plans[CreateName] = last.plan
        /\ heap[last.plan].name = CreateName
        /\ heap[last.plan].departure = CreateDeparture
        /\ heap[last.plan].arrival = CreateArrival
        /\ (Resolves(CreateDeparture) /\ Resolves(CreateArrival)
               /\ CreateRoute = <<>>) => Len(heap[last.plan].waypoints) = 2

\* A plan without waypoints has just been created from identifiers none of
\* which resolves.
C8_Witness ==
    /\ last.op = "create_flight_plan" /\ last.plan # 0
    /\ flight_plans["P1"] = last.plan
    /\ CreateDeparture = "NOPE" /\ CreateArrival = "NOPE"
    /\ CreateRoute = <<"NOPE", "NOPE">>
    /\ heap[last.plan].waypoints = <<>>

\* The waypoint ids of an airway in ascending sequence_order: the i-th is the
\* one with i - 1 segments before it.
AirwayIdsAscending(airway_name) ==
    LET rows == {r \in airway_segments : r.airway = airway_name}
    IN  [i \in 1..Cardinality(rows) |->
            (CHOOSE r \in rows :
                Cardinality({q \in rows : q.sequence_order < r.sequence_order}) = i - 1
            ).waypoint_id]

\* The identifiers a route contributes, token by token.
RECURSIVE ExpectedRouteIds(_)
ExpectedRouteIds(route) ==
    IF route = <<>> THEN <<>>
    ELSE (IF FirstChar(Head(route)) \in {"J", "V", "Q", "T"}
          THEN SelectSeq(AirwayIdsAscending(Head(route)), Resolves)
          ELSE IF Resolves(Head(route)) THEN <<Head(route)>> ELSE <<>>)
         \o ExpectedRouteIds(Tail(route))

\* C9: when departure and arrival resolve, the waypoints create_flight_plan
\* builds are the departure, then in route order the waypoint of each plain
\* token that resolves and the waypoints of each airway token that resolve in
\* ascending sequence_order, then the arrival, each with the store's
\* coordinates.
C9_WaypointOrder ==
    (last.op = "create_flight_plan" /\ last.plan # 0
        /\ Resolves(CreateDeparture) /\ Resolves(CreateArrival)) =>
        LET w == heap[last.plan].waypoints
        IN  /\ IdsOf(w) = <<CreateDeparture>> \o ExpectedRouteIds(CreateRoute)
                              \o <<CreateArrival>>
            /\ \A i \in 1..Len(w) :
                  /\ w[i].latitude = nav_db[w[i].identifier].latitude
                  /\ w[i].longitude = nav_db[w[i].identifier].longitude

\* A plan has just been created over an airway followed by a plain token.
C9_Witness ==
    /\ last.op = "create_flight_plan" /\ last.plan # 0
    /\ CreateRoute = <<"V200", "SFO">>
    /\ IdsOf(heap[last.plan].waypoints)
           = <<"KSFO", "KOAK", "REJOY", "SFO", "SFO", "KOAK">>

\* C10: insert_waypoint with an identifier that is not in the store returns
\* False and leaves the active plan's waypoints and current_leg_index
\* unchanged, for every position.
C10_InsertUnknown ==
    [][\A wp_id \in InsertIds, position \in Positions :
          (last'.op = "insert_waypoint" /\ ~Resolves(wp_id)
              /\ insert_waypoint(wp_id, position)) =>
              /\ ~last'.ret
              /\ UNCHANGED <<heap, active_plan, flight_plans, current_leg_index>>]_vars

\* insert_waypoint has just been refused while a plan with waypoints is active.
C10_Witness ==
    /\ last.op = "insert_waypoint" /\ ~last.ret
    /\ Active
    /\ Len(ActiveWaypoints) >= 1

\* C11: insert_waypoint with a known identifier on an active plan returns
\* False and leaves the waypoints unchanged when the position is negative,
\* and for every position >= 0 returns True and grows the list by exactly one
\* (a position >= len appends at the end).
C11_InsertPositionContract ==
    [][\A wp_id \in InsertIds, position \in Positions :
          (last'.op = "insert_waypoint" /\ Active /\ Resolves(wp_id)
              /\ insert_waypoint(wp_id, position)) =>
              LET w == ActiveWaypoints
                  w2 == heap'[active_plan].waypoints
              IN  IF position < 0
                  THEN ~last'.ret /\ w2 = w
                  ELSE /\ last'.ret
                       /\ Len(w2) = Len(w) + 1
                       /\ position >= Len(w) =>
                              (w2[Len(w2)].identifier = wp_id
                                  /\ SubSeq(w2, 1, Len(w)) = w)]_vars

\* C12: delete_waypoint(p) and modify_waypoint(p, ...) with p < 0 or
\* p >= len(waypoints) return False and leave the waypoints, their altitudes
\* and speeds, and current_leg_index unchanged.
C12_OutOfRangeRefused ==
    [][/\ \A position \in Positions :
             (last'.op = "delete_waypoint"
                 /\ (position < 0 \/ position >= Len(ActiveWaypoints))
                 /\ delete_waypoint(position)) =>
                 (~last'.ret /\ UNCHANGED <<heap, active_plan, current_leg_index>>)
       /\ \A position \in Positions, new_altitude \in Altitudes, new_speed \in Speeds :
             (last'.op = "modify_waypoint"
                 /\ (position < 0 \/ position >= Len(ActiveWaypoints))
                 /\ modify_waypoint(position, new_altitude, new_speed)) =>
                 (~last'.ret /\ UNCHANGED <<heap, active_plan, current_leg_index>>)]_vars

\* A delete or a modify has just been refused on an active plan that has
\* waypoints, with the cursor past 0.
C12_Witness ==
    /\ last.op \in {"delete_waypoint", "modify_waypoint"} /\ ~last.ret
    /\ Active
    /\ Len(ActiveWaypoints) >= 2
    /\ current_leg_index >= 1

\* C13: with no active plan, insert_waypoint, delete_waypoint and
\* modify_waypoint return False and change nothing: active_plan stays None,
\* current_leg_index stays 0 and the stored plans are unmodified.
C13_NoActivePlanRefused ==
    [][(~Active /\ last'.op \in {"insert_waypoint", "delete_waypoint", "modify_waypoint"}) =>
          /\ ~last'.ret
          /\ active_plan' = 0
          /\ current_leg_index = 0 /\ current_leg_index' = 0
          /\ UNCHANGED <<heap, flight_plans>>]_vars

\* One of the three has just been refused with no plan active while a plan
\* with waypoints is stored.
C13_Witness ==
    /\ last.op \in {"insert_waypoint", "delete_waypoint", "modify_waypoint"}
    /\ ~last.ret
    /\ ~Active
    /\ flight_plans["P1"] # 0
    /\ Len(heap[flight_plans["P1"]].waypoints) >= 2

\* C14: a successful modify_waypoint(p, new_altitude, new_speed) assigns the
\* supplied fields of the waypoint at index p, keeps a field that is not
\* supplied, and leaves every other field and waypoint, the length and order
\* of the list, and current_leg_index unchanged.
C14_ModifyFrame ==
    [][\A position \in Positions, new_altitude \in Altitudes, new_speed \in Speeds :
          (last'.op = "modify_waypoint" /\ last'.ret
              /\ modify_waypoint(position, new_altitude, new_speed)) =>
              LET w == ActiveWaypoints
                  w2 == heap'[active_plan].waypoints
                  i == position + 1
              IN  /\ Len(w2) = Len(w)
                  /\ \A j \in 1..Len(w) : j # i => w2[j] = w[j]
                  /\ w2[i].altitude =
                         (IF new_altitude = None THEN w[i].altitude ELSE new_altitude)
                  /\ w2[i].speed =
                         (IF new_speed = None THEN w[i].speed ELSE new_speed)
                  /\ \A f \in DOMAIN w[i] \ {"altitude", "speed"} : w2[i][f] = w[i][f]
                  /\ UNCHANGED <<current_leg_index, active_plan, flight_plans>>]_vars

\* A modify has just succeeded on a plan that holds a waypoint with an
\* altitude and no speed and another with a speed and no altitude.
C14_Witness ==
    /\ last.op = "modify_waypoint" /\ last.ret
    /\ Active
    /\ \E i, j \in 1..Len(ActiveWaypoints) :
          /\ ActiveWaypoints[i].altitude # None /\ ActiveWaypoints[i].speed = None
          /\ ActiveWaypoints[j].altitude = None /\ ActiveWaypoints[j].speed # None

\* C15: set_active_plan with a plan that is not None returns True and makes
\* that plan the active one with current_leg_index 0, whatever was active
\* before; clear_active_plan leaves no plan active and current_leg_index 0.
C15_ActivateAndClear ==
    [][/\ \A flight_plan \in CallerPlans :
             (last'.op = "set_active_plan" /\ flight_plan # 0
                 /\ set_active_plan(flight_plan)) =>
                 /\ last'.ret
                 /\ active_plan' # 0
                 /\ heap'[active_plan'] = heap[flight_plan]
                 /\ current_leg_index' = 0
       /\ last'.op = "clear_active_plan" =>
             (active_plan' = 0 /\ current_leg_index' = 0)]_vars

\* A plan with waypoints has just been made active.
C15_Witness ==
    /\ last.op = "set_active_plan" /\ last.ret
    /\ Active
    /\ current_leg_index = 0
    /\ Len(ActiveWaypoints) >= 2

\* C16: get_current_leg returns (waypoints[i], waypoints[i+1]) exactly when a
\* plan is active and i = current_leg_index < len(waypoints) - 1, and None
\* otherwise; get_next_waypoint returns the second element of that leg or
\* None; is_end_of_route is True exactly when get_current_leg is None.
C16_QueriesAgree ==
    /\ IF Active /\ current_leg_index < Len(heap[active_plan].waypoints) - 1
       THEN get_current_leg =
                Some(<<heap[active_plan].waypoints[current_leg_index + 1],
                       heap[active_plan].waypoints[current_leg_index + 2]>>)
       ELSE get_current_leg = None
    /\ get_next_waypoint =
           (IF get_current_leg = None THEN None ELSE Some(get_current_leg[1][2]))
    /\ is_end_of_route <=> (get_current_leg = None)

\* A plan is active with the cursor past 0 and a leg ahead of it.
C16_Witness ==
    /\ Active
    /\ current_leg_index >= 1
    /\ get_current_leg # None
    /\ get_next_waypoint = Some(ActiveWaypoints[current_leg_index + 2])

\* C17: in one operation current_leg_index grows only through
\* advance_to_next_leg, and then by exactly 1; insert_waypoint,
\* modify_waypoint, add_procedure, create_flight_plan, save_flight_plan and
\* load_flight_plan never change it; it shrinks only through set_active_plan
\* and clear_active_plan, to 0, and through delete_waypoint, by 1.
C17_CursorMoves ==
    [][/\ current_leg_index' > current_leg_index =>
              (last'.op = "advance_to_next_leg"
                  /\ current_leg_index' = current_leg_index + 1)
       /\ last'.op \in {"insert_waypoint", "modify_waypoint", "add_procedure",
                        "create_flight_plan", "save_flight_plan", "load_flight_plan"}
              => current_leg_index' = current_leg_index
       /\ current_leg_index' < current_leg_index =>
              \/ last'.op \in {"set_active_plan", "clear_active_plan"}
                     /\ current_leg_index' = 0
              \/ last'.op = "delete_waypoint"
                     /\ current_leg_index' = current_leg_index - 1]_vars

\* A plan has just been loaded while the cursor of the active plan is past 0.
C17_Witness ==
    /\ last.op = "load_flight_plan" /\ last.ret
    /\ Active
    /\ current_leg_index >= 1

\* C19: load_flight_plan applied to the file save_flight_plan has written
\* (FlightPlan.from_dict of the plan's to_dict) yields a plan equal to the
\* saved one in every field, waypoints included, and registers it in
\* flight_plans under its name.
C19_RoundTrip ==
    [][/\ (last'.op = "save_flight_plan" /\ last'.ret) =>
              LET saved == heap[last'.args[1]]
                  written == files'[last'.args[2]]
              IN  /\ written.kind = "json"
                  /\ FlightPlan_from_dict(written.data) = Some(saved)
       /\ (last'.op = "load_flight_plan" /\ last'.ret) =>
              LET loaded == heap'[last'.plan]
                  read == files[last'.args[1]]
              IN  /\ flight_plans'[loaded.name] = last'.plan
                  /\ FlightPlan_to_dict(loaded) = read.data
                  /\ \A r \in 1..Len(heap) :
                         (read = [kind |-> "json", data |-> FlightPlan_to_dict(heap[r])])
                             => loaded = heap[r]]_vars

\* A plan with a modified waypoint, a procedure waypoint and a creation time
\* off the whole second has just been loaded and is registered.
C19_Witness ==
    /\ last.op = "load_flight_plan" /\ last.ret /\ last.plan # 0
    /\ flight_plans["P1"] = last.plan
    /\ heap[last.plan].created_date.microsecond # 0
    /\ \E i, j \in 1..Len(heap[last.plan].waypoints) :
          /\ heap[last.plan].waypoints[i].altitude # None
          /\ heap[last.plan].waypoints[j].procedure_type # None

\* C20: load_flight_plan on a file that is missing or damaged returns None and
\* leaves flight_plans, active_plan and current_leg_index unchanged.
C20_BadFileRefused ==
    [][(last'.op = "load_flight_plan"
            /\ files[last'.args[1]] \in DamagedContents \cup {Missing}) =>
          /\ ~last'.ret /\ last'.plan = 0
          /\ UNCHANGED <<heap, flight_plans, active_plan, current_leg_index>>]_vars

\* A load has just been refused on a file holding JSON that is no plan, with
\* a plan active and the cursor past 0.
C20_Witness ==
    /\ last.op = "load_flight_plan" /\ ~last.ret
    /\ last.args = <<"plans/P1.json">>
    /\ files["plans/P1.json"].kind = "json"
    /\ Active
    /\ current_leg_index >= 1

\* C18: an add (overwrite) or a delete of a waypoint in the store leaves the
\* identifier, latitude, longitude and type of every waypoint of every plan
\* unchanged, their number included, and get_current_leg, get_next_waypoint
\* and is_end_of_route return what they returned before.
C18_PlansAreSnapshots ==
    [][last'.op \in {"add_waypoint", "WaypointDatabase.delete_waypoint"} =>
          /\ Len(heap') = Len(heap)
          /\ \A r \in 1..Len(heap) :
                /\ Len(heap'[r].waypoints) = Len(heap[r].waypoints)
                /\ \A i \in 1..Len(heap[r].waypoints) :
                      LET before == heap[r].waypoints[i]
                          after == heap'[r].waypoints[i]
                      IN  /\ after.identifier = before.identifier
                          /\ after.latitude = before.latitude
                          /\ after.longitude = before.longitude
                          /\ after.waypoint_type = before.waypoint_type
          /\ UNCHANGED <<flight_plans, active_plan>>
          /\ get_current_leg' = get_current_leg
          /\ get_next_waypoint' = get_next_waypoint
          /\ is_end_of_route' = is_end_of_route]_vars

\* The store has just been edited under an active plan with a current leg:
\* one of the plan's waypoints is no longer in the store and another has
\* coordinates the store no longer has.
C18_Witness ==
    /\ last.op \in {"add_waypoint", "WaypointDatabase.delete_waypoint"} /\ last.ret
    /\ Active
    /\ get_current_leg # None
    /\ \E i, j \in 1..Len(ActiveWaypoints) :
          /\ ActiveWaypoints[i].identifier \notin DOMAIN nav_db
          /\ ActiveWaypoints[j].identifier \in DOMAIN nav_db
          /\ ActiveWaypoints[j].latitude
                 # nav_db[ActiveWaypoints[j].identifier].latitude

\* C25: a successful insert_waypoint at a position at or before the cursor
\* leaves get_current_leg returning the same pair of waypoints as before.
C25_InsertKeepsLeg ==
    [][\A wp_id \in InsertIds, position \in Positions :
          (last'.op = "insert_waypoint" /\ last'.ret
              /\ 0 <= position /\ position <= current_leg_index
              /\ get_current_leg # None
              /\ insert_waypoint(wp_id, position))
          => get_current_leg' = get_current_leg]_vars

\* C27: a set_active_plan call that returns False leaves the active plan and
\* current_leg_index as they were.
C27_FailedActivateNoEffect ==
    [][(last'.op = "set_active_plan" /\ ~last'.ret) =>
          /\ Active' = Active
          /\ Active => heap'[active_plan'] = heap[active_plan]
          /\ current_leg_index' = current_leg_index]_vars

\* C29 as stated: once is_end_of_route holds for the active plan it still
\* holds, and advance_to_next_leg returns False, after each
\* advance_to_next_leg, insert_waypoint, delete_waypoint, modify_waypoint and
\* add_procedure call.
C29_EndOfRouteStable ==
    [][(Active /\ is_end_of_route
            /\ last'.op \in {"advance_to_next_leg", "insert_waypoint", "delete_waypoint",
                             "modify_waypoint", "add_procedure"})
          => /\ is_end_of_route'
             /\ last'.op = "advance_to_next_leg" => ~last'.ret]_vars

\* C29, amended: once is_end_of_route holds for the active plan it still
\* holds, and advance_to_next_leg returns False, after each
\* advance_to_next_leg, delete_waypoint and modify_waypoint call (the calls
\* that do not lengthen the plan).
C29_EndOfRouteStableWithoutGrowth ==
    [][(Active /\ is_end_of_route
            /\ last'.op \in {"advance_to_next_leg", "delete_waypoint", "modify_waypoint"})
          => /\ is_end_of_route'
             /\ last'.op = "advance_to_next_leg" => ~last'.ret]_vars

\* A waypoint has just been deleted at or before a cursor that stood at the
\* end of the route, and the cursor, moved back by one, still stands there.
C29_Witness ==
    /\ last.op = "delete_waypoint" /\ last.ret
    /\ Active
    /\ last.leg_index >= Len(ActiveWaypoints)
    /\ last.leg_index >= 1
    /\ current_leg_index = last.leg_index - 1
    /\ is_end_of_route

\* The waypoints a route contributes, token by token: for a token starting
\* with J, V, Q or T the airway's waypoints that resolve, as airway waypoints;
\* for any other token its waypoint in the store, if there is one.
RECURSIVE ExpectedRouteWaypoints(_)
ExpectedRouteWaypoints(route) ==
    IF route = <<>> THEN <<>>
    ELSE (IF FirstChar(Head(route)) \in {"J", "V", "Q", "T"}
          THEN LET ids == SelectSeq(AirwayIdsAscending(Head(route)), Resolves)
               IN  [i \in 1..Len(ids) |->
                       FlightPlanWaypoint(ids[i], nav_db[ids[i]].latitude,
                                          nav_db[ids[i]].longitude,
                                          "airway_waypoint", None)]
          ELSE IF Resolves(Head(route))
               THEN <<FlightPlanWaypoint(Head(route), nav_db[Head(route)].latitude,
                                         nav_db[Head(route)].longitude,
                                         nav_db[Head(route)].waypoint_type, None)>>
               ELSE <<>>)
         \o ExpectedRouteWaypoints(Tail(route))

\* The number of waypoints the endpoints contribute.
EndpointCount(identifier) == IF Resolves(identifier) THEN 1 ELSE 0

\* C26: in the plan create_flight_plan builds, the waypoints between the
\* endpoints are, token by token, the resolved waypoints of the airway for a
\* token starting with J, V, Q or T (none when there is no such airway, also
\* when the store holds a waypoint of that name) and the store's waypoint for
\* every other token.
C26_PrefixedTokenIsAirway ==
    (last.op = "create_flight_plan" /\ last.plan # 0) =>
        LET w == heap[last.plan].waypoints
        IN  SubSeq(w, 1 + EndpointCount(CreateDeparture),
                   Len(w) - EndpointCount(CreateArrival))
                = ExpectedRouteWaypoints(CreateRoute)

\* A plan has just been created over TANGO and V200 while the store holds
\* waypoints of both names: TANGO contributed nothing and V200 its airway.
C26_Witness ==
    /\ last.op = "create_flight_plan" /\ last.plan # 0
    /\ {"TANGO", "V200"} \subseteq DOMAIN nav_db
    /\ CreateRoute = <<"TANGO", "V200">>
    /\ IdsOf(heap[last.plan].waypoints) = <<"KSFO", "KOAK", "REJOY", "SFO", "KOAK">>

\* C22: the store never holds a record that fails validation, nor two
\* records whose identifiers are the same in upper case; an add of a
\* waypoint that fails validation has returned False.
C22_StoreHoldsValidRecords ==
    /\ \A id \in DOMAIN nav_db :
          /\ validate_waypoint_data(nav_db[id]) = {}
          /\ \A other \in DOMAIN nav_db : Upper(other) = Upper(id) => other = id
    /\ (last.op = "WaypointDatabase.add_waypoint"
            /\ validate_waypoint_data(last.args[1]) # {}) => ~last.ret

\* C23: a lookup with an identifier that is, in upper case, the identifier
\* of a stored waypoint returns that waypoint, through NavigationDatabase as
\* through WaypointDatabase; a lookup with any other identifier returns None.
C23_LookupIgnoresCase ==
    last.op \in {"find_waypoint", "WaypointDatabase.find_waypoint"} =>
        LET stored == {id \in DOMAIN nav_db : Upper(id) = Upper(last.args[1])}
        IN  /\ ~last.raised
            /\ IF stored = {} THEN last.args[2] = None
               ELSE /\ last.args[2] # None
                    /\ Upper(last.args[2][1].identifier) = Upper(last.args[1])

(***************************************************************************)
(* RouteOptimizer                                                          *)
(*                                                                         *)
(* The optimizer passes list objects and FlightPlanWaypoint objects on by  *)
(* reference, so its plans are kept as Python keeps them: a plan's         *)
(* waypoints field is a reference into optimizer.lists, and a list is a    *)
(* sequence of references into optimizer.objects.  Plan 1 is the plan      *)
(* handed to optimize_flight_plan, plan 2 the plan it returns.             *)
(***************************************************************************)
MaxOptimized == 4    \* waypoints of the longest plan handed to the optimizer

\* The list object a plan's waypoints field refers to.
ListOf(state, plan) == state.lists[state.plans[plan].waypoints]

\* The waypoints of a plan as values, in list order.
WaypointsOf(state, plan) ==
    [i \in 1..Len(ListOf(state, plan)) |-> state.objects[ListOf(state, plan)[i]]]

\* Great-circle distance.  The waypoints of the model's plans lie on one
\* meridian, where the haversine formula gives the difference of the
\* latitudes as the arc; the unit is 1e-4 degree of arc instead of the
\* nautical mile (a constant factor).
calculate_distance(wp1, wp2) ==
    IF wp2.latitude >= wp1.latitude THEN wp2.latitude - wp1.latitude
    ELSE wp1.latitude - wp2.latitude

\* Variant: the legs are measured from the first waypoint.
calculate_total_distance_FromFirst(waypoints) ==
    LET Sum[i \in 0..Len(waypoints)] ==
            IF i <= 1 THEN 0
            ELSE Sum[i - 1] + calculate_distance(waypoints[1], waypoints[i])
    IN  Sum[Len(waypoints)]

\* The loop over range(len(waypoints) - 1); 0.0 for fewer than 2 waypoints.
calculate_total_distance(waypoints) ==
    LET Sum[i \in 0..Len(waypoints)] ==
            IF i <= 1 THEN 0
            ELSE Sum[i - 1] + calculate_distance(waypoints[i - 1], waypoints[i])
    IN  Sum[Len(waypoints)]

\* Variant: a waypoint at the same distance replaces the nearest so far.
Nearer_OrEqual(distance, nearest_distance) == distance <= nearest_distance

\* `if distance < nearest_distance`
Nearer(distance, nearest_distance) == distance < nearest_distance

\* The while loop: optimized_route from current_point on.  The for loop of a
\* round gives the index (from 1) in `remaining` of the waypoint the round
\* pops; nearest_idx starts at the first element.
RECURSIVE GreedyRoute(_, _, _)
GreedyRoute(objects, current_point, remaining) ==
    IF remaining = <<>> THEN <<>>
    ELSE LET Distance(i) ==
                 calculate_distance(objects[current_point], objects[remaining[i]])
             Scan[i \in 1..Len(remaining)] ==
                 IF i = 1 THEN 1
                 ELSE IF Nearer(Distance(i), Distance(Scan[i - 1])) THEN i
                 ELSE Scan[i - 1]
             nearest_idx == Scan[Len(remaining)]
         IN  <<remaining[nearest_idx]>>
             \o GreedyRoute(objects, remaining[nearest_idx],
                            ListPop(remaining, nearest_idx - 1))

nearest_neighbor_optimization(objects, start, end, intermediate) ==
    IF Len(intermediate) <= 1 THEN intermediate
    ELSE GreedyRoute(objects, start, intermediate)

\* The list _optimize_shortest_distance returns: the list object it was given
\* (same |-> TRUE), or a new list of the same waypoint objects.
optimize_shortest_distance(objects, waypoints) ==
    IF Len(waypoints) <= 2 THEN [same |-> TRUE, list |-> waypoints]
    ELSE LET departure == waypoints[1]
             arrival == waypoints[Len(waypoints)]
             intermediate == SubSeq(waypoints, 2, Len(waypoints) - 1)
         IN  IF Len(intermediate) <= 1 THEN [same |-> TRUE, list |-> waypoints]
             ELSE [same |-> FALSE,
                   list |-> <<departure>>
                            \o nearest_neighbor_optimization(objects, departure, arrival,
                                                             intermediate)
                            \o <<arrival>>]

optimize_fuel_efficient(objects, waypoints) == optimize_shortest_distance(objects, waypoints)

optimize_time_efficient(objects, waypoints) == optimize_shortest_distance(objects, waypoints)

\* The keys of self.optimization_algorithms.
optimization_algorithms == {"shortest_distance", "fuel_efficient", "time_efficient"}

\* f"{flight_plan.name}_OPTIMIZED" for the names the model uses.
OptimizedName(name) ==
    CASE name = "P1" -> "P1_OPTIMIZED"
      [] name = "P2" -> "P2_OPTIMIZED"
      [] OTHER -> "_OPTIMIZED"

\* A float the code obtains by division, kept as the exact quotient.
Quotient(num, den) == [num |-> num, den |-> den]

\* distance_saved / (cruise_speed / 60.0); 0.0 for a speed that is not positive.
estimate_time_savings(distance_saved, cruise_speed) ==
    IF cruise_speed <= 0 THEN Quotient(0, 1)
    ELSE Quotient(distance_saved * 60, cruise_speed)

\* time_saved * (200.0 / 60.0)
estimate_fuel_savings(distance_saved, time_saved) ==
    Quotient(time_saved.num * 200, time_saved.den * 60)

optimize_flight_plan(flight_plan, algorithm) ==
    /\ IF algorithm \notin optimization_algorithms
       THEN \* raise ValueError
            /\ last' = [Result("optimize_flight_plan", FALSE, 0) EXCEPT
                           !.args = <<flight_plan, algorithm>>, !.raised = TRUE]
            /\ UNCHANGED optimizer
       ELSE LET plan == optimizer.plans[flight_plan]
                waypoints == ListOf(optimizer, flight_plan)
                Values(list) == [i \in 1..Len(list) |-> optimizer.objects[list[i]]]
                original_distance == calculate_total_distance(Values(waypoints))
                optimized_waypoints ==
                    CASE algorithm = "shortest_distance" ->
                             optimize_shortest_distance(optimizer.objects, waypoints)
                      [] algorithm = "fuel_efficient" ->
                             optimize_fuel_efficient(optimizer.objects, waypoints)
                      [] algorithm = "time_efficient" ->
                             optimize_time_efficient(optimizer.objects, waypoints)
                lists == IF optimized_waypoints.same THEN optimizer.lists
                         ELSE Append(optimizer.lists, optimized_waypoints.list)
                optimized_plan ==
                    [FlightPlan(OptimizedName(plan.name), plan.departure, plan.arrival,
                                IF optimized_waypoints.same THEN plan.waypoints
                                ELSE Len(lists),
                                plan.cruise_altitude, plan.cruise_speed)
                        EXCEPT !.created_date = plan.created_date]
                optimized_distance ==
                    calculate_total_distance(Values(optimized_waypoints.list))
                distance_saved == original_distance - optimized_distance
                time_saved == estimate_time_savings(distance_saved, plan.cruise_speed)
                fuel_saved == estimate_fuel_savings(distance_saved, time_saved)
            IN  /\ optimizer' =
                       [optimizer EXCEPT
                           !.lists = lists,
                           !.plans = Append(@, optimized_plan),
                           !.result = Some(
                               [optimized_plan |-> Len(optimizer.plans) + 1,
                                original_distance |-> original_distance,
                                optimized_distance |-> optimized_distance,
                                distance_saved |-> distance_saved,
                                time_saved |-> time_saved,
                                fuel_saved |-> fuel_saved])]
                /\ last' = [Result("optimize_flight_plan", TRUE, Len(optimizer.plans) + 1)
                               EXCEPT !.args = <<flight_plan, algorithm>>]
    /\ UNCHANGED <<nav_db, heap, flight_plans, active_plan, current_leg_index>>

\* abs(A * point_x + B * point_y + C) / math.sqrt(A*A + B*B) * 60, as None when
\* the division raises ZeroDivisionError and Some(deviation) otherwise.  On one
\* meridian B is 0 and the point is on the line x = start_x, so the quotient
\* is 0.0 / 0.0 when start and end have the same latitude and 0 otherwise.
calculate_deviation_from_direct_path(start, end, point) ==
    LET A == end.latitude - start.latitude
        B == start.longitude - end.longitude
    IN  IF A = 0 /\ B = 0 THEN None ELSE Some(0)

\* The dict analyze_route_efficiency returns as `ret`, or raised |-> TRUE when
\* the loop over the intermediate waypoints raises.
analyze_route_efficiency(waypoints) ==
    IF Len(waypoints) < 2
    THEN [raised |-> FALSE, ret |-> [status |-> "insufficient_waypoints"]]
    ELSE LET total_distance == calculate_total_distance(waypoints)
             direct_distance == calculate_distance(waypoints[1], waypoints[Len(waypoints)])
             efficiency == IF total_distance > 0
                           THEN Quotient(direct_distance * 100, total_distance)
                           ELSE Quotient(0, 1)
             deviation(i) == calculate_deviation_from_direct_path(
                                 waypoints[1], waypoints[Len(waypoints)], waypoints[i])
             max_deviation[i \in 1..Len(waypoints) - 1] ==
                 IF i = 1 THEN 0 ELSE Max(max_deviation[i - 1], deviation(i)[1])
             recommendations ==
                 (IF efficiency.num < 85 * efficiency.den
                  THEN <<"Route is significantly longer than direct path">> ELSE <<>>)
                 \o (IF Len(waypoints) > 5
                     THEN <<"Consider reducing number of intermediate waypoints">>
                     ELSE <<>>)
                 \o (IF max_deviation[Len(waypoints) - 1] > 50
                     THEN <<"Route contains significant detours">> ELSE <<>>)
         IN  IF \E i \in 2..Len(waypoints) - 1 : deviation(i) = None
             THEN [raised |-> TRUE]
             ELSE [raised |-> FALSE,
                   ret |-> [status |-> "analyzed",
                            total_distance_nm |-> total_distance,
                            direct_distance_nm |-> direct_distance,
                            efficiency_percent |-> efficiency,
                            max_deviation_nm |-> max_deviation[Len(waypoints) - 1],
                            recommendations |-> recommendations,
                            optimization_potential |->
                                Quotient(100 * efficiency.den - efficiency.num,
                                         efficiency.den)]]

(***************************************************************************)
(* FlightPlanManager operations on a plan of the optimizer: the same code  *)
(* as above, acting on the list object and the waypoint objects the        *)
(* active plan refers to.  active_plan is a reference into optimizer.plans.*)
(***************************************************************************)
set_active_plan_ByReference(flight_plan) ==
    /\ active_plan' = flight_plan
    /\ current_leg_index' = 0
    /\ last' = Result("set_active_plan", TRUE, flight_plan)
    /\ UNCHANGED <<nav_db, heap, flight_plans, optimizer>>

insert_waypoint_ByReference(wp_id, position) ==
    /\ IF active_plan = 0
       THEN /\ last' = Result("insert_waypoint", FALSE, 0)
            /\ UNCHANGED optimizer
       ELSE LET waypoint == find_waypoint(wp_id)
            IN  IF waypoint = None
                THEN /\ last' = Result("insert_waypoint", FALSE, 0)
                     /\ UNCHANGED optimizer
                ELSE /\ optimizer' =
                            [optimizer EXCEPT
                                !.objects = Append(@, Snapshot(waypoint[1])),
                                !.lists[optimizer.plans[active_plan].waypoints] =
                                    ListInsert(@, position, Len(optimizer.objects) + 1)]
                     /\ last' = Result("insert_waypoint", TRUE, 0)
    /\ UNCHANGED <<nav_db, heap, flight_plans, active_plan, current_leg_index>>

delete_waypoint_ByReference(position) ==
    /\ IF active_plan = 0 \/ ListOf(optimizer, active_plan) = <<>>
       THEN /\ last' = Result("delete_waypoint", FALSE, 0)
            /\ UNCHANGED <<optimizer, current_leg_index>>
       ELSE IF ValidPosition(position, ListOf(optimizer, active_plan))
       THEN /\ optimizer' =
                   [optimizer EXCEPT
                       !.lists[optimizer.plans[active_plan].waypoints] =
                           ListPop(@, position)]
            /\ current_leg_index' = LegIndexAfterDelete(position, current_leg_index)
            /\ last' = [Result("delete_waypoint", TRUE, 0) EXCEPT
                           !.position = position, !.leg_index = current_leg_index]
       ELSE /\ last' = Result("delete_waypoint", FALSE, 0)
            /\ UNCHANGED <<optimizer, current_leg_index>>
    /\ UNCHANGED <<nav_db, heap, flight_plans, active_plan>>

modify_waypoint_ByReference(position, new_altitude, new_speed) ==
    /\ IF active_plan = 0 \/ ListOf(optimizer, active_plan) = <<>>
       THEN /\ last' = Result("modify_waypoint", FALSE, 0)
            /\ UNCHANGED optimizer
       ELSE IF ValidPosition(position, ListOf(optimizer, active_plan))
       THEN /\ optimizer' =
                   [optimizer EXCEPT
                       !.objects[ListOf(optimizer, active_plan)[position + 1]] =
                           Modified(@, new_altitude, new_speed)]
            /\ last' = [Result("modify_waypoint", TRUE, 0) EXCEPT !.position = position]
       ELSE /\ last' = Result("modify_waypoint", FALSE, 0)
            /\ UNCHANGED optimizer
    /\ UNCHANGED <<nav_db, heap, flight_plans, active_plan, current_leg_index>>

(***************************************************************************)
(* A plan handed to the optimizer, and the edits of the plan it returns    *)
(***************************************************************************)
\* Waypoints on the meridian of SFO, one degree of latitude apart and more.
OptPoints ==
    {FlightPlanWaypoint("WP1", -10000, -1223750, "WAYPOINT", None),
     FlightPlanWaypoint("WP2", 0, -1223750, "WAYPOINT", None),
     FlightPlanWaypoint("WP3", 10000, -1223750, "WAYPOINT", None),
     FlightPlanWaypoint("WP4", 30000, -1223750, "WAYPOINT", None)}

\* A manager with no plan of its own, and a plan of any waypoints built by
\* the caller: each waypoint its own object, in one list.
InitOpt ==
    /\ nav_db = initialize_database
    /\ heap = <<>>
    /\ flight_plans = [n \in Names |-> 0]
    /\ active_plan = 0
    /\ current_leg_index = 0
    /\ last = Result("__init__", TRUE, 0)
    /\ files = NoFiles
    /\ pc = "idle"
    /\ calls = 0
    /\ \E waypoints \in SeqsUpTo(OptPoints, MaxOptimized) :
           optimizer = [objects |-> waypoints,
                        lists |-> <<[i \in 1..Len(waypoints) |-> i]>>,
                        plans |-> <<FlightPlan("P1", "KSFO", "KOAK", 1, 35000, 450)>>,
                        result |-> None]

\* One more manager call is made.
OptCounted == calls < MaxCalls /\ calls' = calls + 1 /\ UNCHANGED <<files, pc>>

\* analyze_route_efficiency(plan) on the plan to be optimized.
OptAnalyze ==
    /\ optimizer.result = None
    /\ LET analysis == analyze_route_efficiency(WaypointsOf(optimizer, 1))
       IN  last' = [Result("analyze_route_efficiency", ~analysis.raised, 1) EXCEPT
                       !.args = IF analysis.raised THEN <<>> ELSE <<analysis.ret>>,
                       !.raised = analysis.raised]
    /\ UNCHANGED <<nav_db, heap, flight_plans, active_plan, current_leg_index, files, pc,
                   calls, optimizer>>

\* result = optimizer.optimize_flight_plan(plan, algorithm)
OptOptimize ==
    /\ optimizer.result = None
    /\ \E algorithm \in optimization_algorithms \cup {"bogus"} :
           optimize_flight_plan(1, algorithm)
    /\ UNCHANGED <<files, pc, calls>>

\* manager.set_active_plan(result.optimized_plan)
OptSetActive ==
    /\ optimizer.result # None
    /\ active_plan = 0
    /\ set_active_plan_ByReference(optimizer.result[1].optimized_plan)
    /\ OptCounted

\* An edit of the active plan at its first position.
OptEdit ==
    /\ active_plan # 0
    /\ \/ insert_waypoint_ByReference("SFO", 0)
       \/ delete_waypoint_ByReference(0)
       \/ modify_waypoint_ByReference(0, Some(10000), None)
    /\ OptCounted

NextOpt == OptAnalyze \/ OptOptimize \/ OptSetActive \/ OptEdit

SpecOpt == InitOpt /\ [][NextOpt]_vars

(***************************************************************************)
(* Properties of the optimizer                                             *)
(***************************************************************************)
\* optimize_flight_plan has just returned a result.
Optimized == last.op = "optimize_flight_plan" /\ last.ret

\* The waypoint objects of the input plan and of the returned plan, in order.
InputList == ListOf(optimizer, 1)
OutputList == ListOf(optimizer, 2)

\* The distance between two waypoint objects.
ObjectDistance(a, b) == calculate_distance(optimizer.objects[a], optimizer.objects[b])

\* The input positions of the intermediates not among the first k - 1
\* waypoints of the output.
Unvisited(k) ==
    {j \in 2..Len(InputList) - 1 :
        InputList[j] \notin {OutputList[i] : i \in 1..k - 1}}

RECURSIVE PathLength(_)
PathLength(waypoints) ==
    IF Len(waypoints) < 2 THEN 0
    ELSE PathLength(SubSeq(waypoints, 1, Len(waypoints) - 1))
         + Max(waypoints[Len(waypoints)].latitude - waypoints[Len(waypoints) - 1].latitude,
               waypoints[Len(waypoints) - 1].latitude - waypoints[Len(waypoints)].latitude)

\* C30 (as stated): the optimized_distance optimize_flight_plan reports is at
\* most original_distance: distance_saved is never negative.
C30_NeverLengthens ==
    Optimized => /\ optimizer.result[1].optimized_distance
                        <= optimizer.result[1].original_distance
                 /\ optimizer.result[1].distance_saved >= 0

\* C30 (amended): original_distance and optimized_distance are the lengths of
\* the input and of the output order, distance_saved is their difference,
\* and it is 0 for a plan with at most one intermediate waypoint.
C30_DistanceSavedIsDifference ==
    Optimized =>
        LET result == optimizer.result[1]
        IN  /\ result.original_distance = PathLength(WaypointsOf(optimizer, 1))
            /\ result.optimized_distance = PathLength(WaypointsOf(optimizer, 2))
            /\ result.distance_saved = result.original_distance - result.optimized_distance
            /\ Len(InputList) <= 3 => result.distance_saved = 0

\* The nearest-neighbour order of a plan's intermediates is longer than the
\* order they were given in.
C30_Witness ==
    /\ Optimized
    /\ Len(InputList) >= 4
    /\ optimizer.result[1].distance_saved < 0

\* C21: no call of the manager, the store or the optimizer propagates an
\* exception: whatever the algorithm name and whatever the coordinates of the
\* plan's departure and arrival, the call made last has returned a value.
C21_NoCallRaises == ~last.raised

\* An edit is made on the plan optimize_flight_plan returned.
EditOfOptimizedPlan ==
    /\ optimizer.result # None
    /\ active_plan = optimizer.result[1].optimized_plan
    /\ last'.op \in {"insert_waypoint", "delete_waypoint", "modify_waypoint"}

\* C28: optimize_flight_plan leaves the waypoints of its input plan as they
\* were, and so does every insert_waypoint, delete_waypoint and
\* modify_waypoint made on the returned plan once it is active: the same
\* waypoints in the same order, with the same altitude and speed.
C28_OptimizedPlanIsIndependent ==
    [][(last'.op = "optimize_flight_plan" \/ EditOfOptimizedPlan)
           => WaypointsOf(optimizer', 1) = WaypointsOf(optimizer, 1)]_vars

====
